---------------------------- MODULE Spec2Model ----------------------------
(***************************************************************************)
(* Model of the peak-tracking core of power_max_tracker                    *)
(* (custom_components/power_max_tracker/coordinator.py).                   *)
(*                                                                         *)
(* Representation.                                                         *)
(*   - Power values in the ledger are whole kilowatts (integers); the      *)
(*     statistics means are watts, drawn from multiples of                 *)
(*     WATTS_TO_KILOWATTS (plus one negative mean and "no mean"), so that  *)
(*     the float division watts / 1000.0 is exact.                         *)
(*   - An instant is a number of seconds since 00:00:00 of day 0.  The     *)
(*     model calendar has HoursPerDay hours a day and DaysPerMonth days a  *)
(*     month (both bounds of the model); day 0 is the 1st of month 0.      *)
(*   - Python's None in a timestamp slot is the value None below.          *)
(***************************************************************************)
EXTENDS Integers, Sequences, FiniteSets, TLC

VARIABLES
    num_max_values,             \* self.num_max_values
    single_peak_per_day,        \* self.single_peak_per_day
    cycle_type,                 \* self.cycle_type
    monthly_reset,              \* self.monthly_reset
    binary_sensor,              \* self.binary_sensor is configured
    gate,                       \* state of the gate sensor in the host
    max_values,                 \* self.max_values
    max_values_timestamps,      \* self.max_values_timestamps
    previous_month_max_values,  \* self.previous_month_max_values
    source_set,                 \* self.source_sensor_entity_id is not None
    store,                      \* content of self._max_values_store
    now,                        \* wall clock of the host
    pu,                         \* the _async_update_period coroutine
    bf,                         \* the _update_max_values_from_range coroutine
    io,                         \* offers, store writes, notifications of the last step
    last,                       \* the last offer: value, result, and its case
    offered,                    \* positive values offered so far (history)
    probe,                      \* input/result of the last property read
    listeners,                  \* self._listeners: the handles registered
    scheduler,                  \* the host's time tracker, per handle
    hourly,                     \* fields of the HourlyAveragePowerSensor
    source_state                \* state of the source sensor in the host

vars == <<num_max_values, single_peak_per_day, cycle_type, monthly_reset,
          binary_sensor, gate, max_values, max_values_timestamps, previous_month_max_values,
          source_set, store, now, pu, bf, io, last, offered, probe,
          listeners, scheduler, hourly, source_state>>

config == <<num_max_values, single_peak_per_day, cycle_type, monthly_reset,
            binary_sensor>>
ledger == <<max_values, max_values_timestamps>>
\* what lies around the coordinator: the listeners and the hourly sensor
platform == <<listeners, scheduler, hourly, source_state>>

---------------------------------------------------------------------------
(* Bounds of the model *)

MaxCapacity == 2      \* capacities 1..MaxCapacity are explored
MaxKw == 3            \* offered values are 0..MaxKw kW
HoursPerDay == 2      \* hours in a day of the model calendar
DaysPerMonth == 2     \* days in a month of the model calendar
MaxHour == 2          \* the clock runs over the hours 0..MaxHour from day 0
MaxOfferDay == 1      \* direct offers carry timestamps of days 0..MaxOfferDay
MaxMeanKw == 2        \* statistics means are 0..MaxMeanKw kW (and one negative)
MaxListLen == 3       \* longest list the average properties are read on
MaxCapacityInput == 11  \* requested capacities are -1..MaxCapacityInput

(* Program constants (const.py) *)

SECONDS_PER_HOUR == 3600
SECONDS_PER_QUARTER_HOUR == 900
WATTS_TO_KILOWATTS == 1000
CYCLE_HOURLY == "hourly"
CYCLE_QUARTERLY == "quarterly"
QUARTERLY_UPDATE_MINUTES == {1, 16, 31, 46}

None == -1            \* Python None in max_values_timestamps

\* Strings in a timestamp slot that are no datetime: a non-empty string
\* that is not in ISO 8601 form, and the empty string.  In a list of
\* timestamps they stand as these two codes.
GarbageString == -2
EmptyString == -3

---------------------------------------------------------------------------
(* Sequences as Python lists *)

Range(s) == {s[i] : i \in DOMAIN s}

\* s[:n]
Slice(s, n) == SubSeq(s, 1, IF Len(s) < n THEN Len(s) ELSE n)

\* [x] * n
Repeat(x, n) == [i \in 1..n |-> x]

\* list.insert(idx, x) with a 0-based idx in 0..len
ListInsert(s, idx, x) ==
    SubSeq(s, 1, idx) \o <<x>> \o SubSeq(s, idx + 1, Len(s))

\* zip(a, b): pairs up to the shorter length
Zip(a, b) ==
    LET n == IF Len(a) < Len(b) THEN Len(a) ELSE Len(b)
    IN  [i \in 1..n |-> <<a[i], b[i]>>]

\* One step of a stable descending sort on pairs keyed by their first
\* component: p goes after every element whose key is >= its own.
MutInsertDesc(p, s) == Append(s, p)

RECURSIVE InsertDesc(_, _)
InsertDesc(p, s) ==
    IF s = <<>> THEN <<p>>
    ELSE IF s[1][1] >= p[1] THEN <<s[1]>> \o InsertDesc(p, Tail(s))
    ELSE <<p>> \o s

\* list.sort(key=lambda x: x[0], reverse=True): stable, descending
RECURSIVE SortPairsDescFrom(_, _)
SortPairsDescFrom(s, acc) ==
    IF s = <<>> THEN acc
    ELSE SortPairsDescFrom(Tail(s), InsertDesc(s[1], acc))

SortPairsDesc(s) == SortPairsDescFrom(s, <<>>)

\* sorted(values, reverse=True)
SortedDesc(s) ==
    LET p == SortPairsDesc([i \in DOMAIN s |-> <<s[i], s[i]>>])
    IN  [i \in DOMAIN p |-> p[i][1]]

---------------------------------------------------------------------------
(* Calendar: datetime fields of an instant *)

SecondsPerDay == HoursPerDay * SECONDS_PER_HOUR

\* datetime.date(): the day the instant lies in
DateOf(t) == t \div SecondsPerDay

\* datetime.day: day of the month, from 1
DayOfMonth(t) == (DateOf(t) % DaysPerMonth) + 1

HourOf(t) == (t % SecondsPerDay) \div SECONDS_PER_HOUR
MinuteOf(t) == (t % SECONDS_PER_HOUR) \div 60
SecondOf(t) == t % 60

\* datetime.replace(minute=m, second=0, microsecond=0)
ReplaceMinute(t, m) == t - MinuteOf(t) * 60 - SecondOf(t) + m * 60

\* datetime.replace(hour=0, minute=0, second=0, microsecond=0)
Midnight(t) == DateOf(t) * SecondsPerDay

\* datetime.replace(day=1, hour=0, minute=0, second=0, microsecond=0)
MonthStart(t) == (DateOf(t) - (DayOfMonth(t) - 1)) * SecondsPerDay

---------------------------------------------------------------------------
(* Cycle clock *)

SecondsPerCycle(ct) ==
    IF ct = CYCLE_QUARTERLY THEN SECONDS_PER_QUARTER_HOUR ELSE SECONDS_PER_HOUR

MutGetCurrentCycleStart(ct, t) ==
    ReplaceMinute(t, 0) - SecondsPerCycle(ct)

GetCurrentCycleStart(ct, t) ==
    LET floored == IF ct = CYCLE_QUARTERLY
                   THEN ReplaceMinute(t, (MinuteOf(t) \div 15) * 15)
                   ELSE ReplaceMinute(t, 0)
    IN  floored - SecondsPerCycle(ct)

---------------------------------------------------------------------------
(* Peak ledger *)

Result(ok, vals, tss) == [ok |-> ok, values |-> vals, timestamps |-> tss]

\* The index at which the new value sits in the new list (0-based).
RECURSIVE FindInsertIndex(_, _, _, _)
FindInsertIndex(newv, oldv, v, i) ==
    IF i > Len(newv) THEN 0
    ELSE IF newv[i] = v /\ (i > Len(oldv) \/ oldv[i] # v) THEN i - 1
    ELSE FindInsertIndex(newv, oldv, v, i + 1)

MutInsertIndex(newv, oldv, v) == 0

InsertIndex(newv, oldv, v) == FindInsertIndex(newv, oldv, v, 1)

MutIsDuplicate(vals, v) == FALSE

\* new_value in self.max_values
IsDuplicate(vals, v) == v \in Range(vals)

MutNewMaxValues(vals, v, n) == Slice(Append(vals, v), n)

\* the new value first, unsorted
MutNewMaxValuesNewest(vals, v, n) == Slice(<<v>> \o vals, n)

\* sorted ascending, the top n taken from the end
MutNewMaxValuesAscending(vals, v, n) ==
    LET top == Slice(SortedDesc(Append(vals, v)), n)
    IN  [i \in DOMAIN top |-> top[Len(top) + 1 - i]]

\* sorted(self.max_values + [new_value], reverse=True)[: self.num_max_values]
NewMaxValues(vals, v, n) == Slice(SortedDesc(Append(vals, v)), n)

UpdateHourly(vals, tss, n, v, t) ==
    IF IsDuplicate(vals, v) THEN Result(FALSE, vals, tss)
    ELSE LET newv == NewMaxValues(vals, v, n)
         IN  IF newv = vals THEN Result(FALSE, vals, tss)
             ELSE LET idx == InsertIndex(newv, vals, v)
                      newts == Slice(ListInsert(tss, idx, t), n)
                  IN  Result(TRUE, newv, newts)

MutSortAndSliceCombined(combined, n) ==
    LET s == SortPairsDesc(combined)
    IN  [values |-> [i \in DOMAIN s |-> s[i][1]],
         timestamps |-> [i \in DOMAIN s |-> s[i][2]]]

SortAndSliceCombined(combined, n) ==
    LET sliced == Slice(SortPairsDesc(combined), n)
    IN  [values |-> [i \in DOMAIN sliced |-> sliced[i][1]],
         timestamps |-> [i \in DOMAIN sliced |-> sliced[i][2]]]

\* First slot whose timestamp lies on date d (1-based), 0 when there is none.
RECURSIVE FindDateIndex(_, _, _)
FindDateIndex(tss, d, i) ==
    IF i > Len(tss) THEN 0
    ELSE IF tss[i] \notin {None, EmptyString} /\ DateOf(tss[i]) = d THEN i
    ELSE FindDateIndex(tss, d, i + 1)

MutExistingDateIndex(tss, d) == 0

ExistingDateIndex(tss, d) == FindDateIndex(tss, d, 1)

MutKeepsDailyPeak(v, existing) == v < existing

\* new_value <= self.max_values[existing_date_index]
KeepsDailyPeak(v, existing) == v <= existing

UpdateDaily(vals, tss, n, v, t) ==
    LET e == ExistingDateIndex(tss, DateOf(t))
    IN  IF e # 0
        THEN IF KeepsDailyPeak(v, vals[e]) THEN Result(FALSE, vals, tss)
             ELSE LET r == SortAndSliceCombined(
                               Zip([vals EXCEPT ![e] = v],
                                   [tss EXCEPT ![e] = t]), n)
                  IN  Result(TRUE, r.values, r.timestamps)
        ELSE LET r == SortAndSliceCombined(
                          Zip(Append(vals, v), Append(tss, t)), n)
             IN  IF r.values # vals
                 THEN Result(TRUE, r.values, r.timestamps)
                 ELSE Result(FALSE, vals, tss)

UpdateMaxValuesWithTimestamp(daily, vals, tss, n, v, t) ==
    IF daily THEN UpdateDaily(vals, tss, n, v, t)
    ELSE UpdateHourly(vals, tss, n, v, t)

---------------------------------------------------------------------------
(* Values shared by the specifications *)

Capacities == 1..MaxCapacity
KwValues == 0..MaxKw
Hours == 0..MaxHour

\* hass.states.get(binary_sensor): no state object, or one whose state is
\* one of these strings
GateMissing == "missing"
GateStates == {GateMissing, "unavailable", "off", "on"}

NoOffer == [op |-> "none", value |-> 0, ok |-> FALSE, changed |-> FALSE,
            dup |-> FALSE, same_date |-> FALSE]
NoIo == [op |-> "none", offers |-> 0, writes |-> 0, notifies |-> 0]
NoRecord == [saved |-> FALSE, max_values |-> <<>>,
             max_values_timestamps |-> <<>>,
             previous_month_max_values |-> <<>>]
NoProbe == [fn |-> "none", a |-> 0, b |-> 1]
\* The callbacks async_setup registers with async_track_time_change, and
\* what the host holds for each: whether it still fires the callback, and
\* how often the cancel handle it returned has been called.
Handles == {"period", "reset"}
NoListeners == [h \in Handles |-> [active |-> FALSE, cancels |-> 0]]
\* HourlyAveragePowerSensor.__init__.  The accumulated energy is counted in
\* half watt-seconds, which keeps (last_power + current_power) / 2 * seconds
\* exact: a kWh is 2 * WATTS_TO_KILOWATTS * SECONDS_PER_HOUR of them.
NewHourlySensor ==
    [accumulated_energy |-> 0, last_power |-> 0, last_time |-> None]

\* hass.states.get(source_sensor): a number of watts, or no usable state
\* (no state object, "unavailable", "unknown", or not a number)
SourceUnknown == [known |-> FALSE, watts |-> 0]
IdlePeriod == [pc |-> "idle", start |-> 0, now |-> 0]
NoShadow == [values |-> <<>>, timestamps |-> <<>>]
IdleRange == [pc |-> "idle", start |-> 0, cycle |-> 0, cycles |-> 0,
              reset_max |-> FALSE, shadow |-> NoShadow]

\* PowerMaxCoordinator.__init__: a new coordinator of the chosen capacity
\* and mode
FreshInit ==
    /\ num_max_values \in Capacities
    /\ single_peak_per_day \in BOOLEAN
    /\ max_values = Repeat(0, num_max_values)
    /\ max_values_timestamps = Repeat(None, num_max_values)
    /\ previous_month_max_values = <<>>
    /\ source_set = FALSE
    /\ store = NoRecord
    /\ pu = IdlePeriod
    /\ bf = IdleRange
    /\ io = NoIo
    /\ last = NoOffer
    /\ offered = {}
    /\ probe = NoProbe
    /\ listeners = <<>>
    /\ scheduler = NoListeners
    /\ hourly = NewHourlySensor
    /\ source_state = SourceUnknown

---------------------------------------------------------------------------
(* SpecLedger: direct calls of _update_max_values_with_timestamp on a     *)
(* freshly constructed coordinator.                                        *)

\* Timestamps handed to the direct calls: minute 1 of the first and of the
\* last hour of each day.
OfferInstants ==
    {d * SecondsPerDay + h * SECONDS_PER_HOUR + 60 :
        d \in 0..MaxOfferDay, h \in {0, HoursPerDay - 1}}

InitLedger ==
    /\ FreshInit
    /\ binary_sensor = FALSE
    /\ gate = GateMissing
    /\ cycle_type = CYCLE_HOURLY
    /\ monthly_reset = FALSE
    /\ now = 0

\* What the caller of an offer can observe: the value offered, the result,
\* whether max_values changed, whether the value was already in max_values
\* and whether a populated slot already carried the timestamp's date.
Observed(v, t, r) ==
    [op |-> "offer", value |-> v, ok |-> r.ok,
     changed |-> (r.values # max_values),
     dup |-> (v \in Range(max_values)),
     same_date |-> (\E i \in DOMAIN max_values_timestamps :
                       /\ max_values_timestamps[i] # None
                       /\ DateOf(max_values_timestamps[i]) = DateOf(t))]

OfferCall(v, t) ==
    LET r == UpdateMaxValuesWithTimestamp(single_peak_per_day, max_values,
                 max_values_timestamps, num_max_values, v, t)
    IN  /\ max_values' = r.values
        /\ max_values_timestamps' = r.timestamps
        /\ last' = Observed(v, t, r)
        /\ offered' = IF v > 0 THEN offered \cup {v} ELSE offered
        /\ io' = [op |-> "offer", offers |-> 1, writes |-> 0, notifies |-> 0]
        /\ UNCHANGED <<config, platform, gate, previous_month_max_values, source_set, store,
                       now, pu, bf, probe>>

Offer == \E v \in KwValues, t \in OfferInstants : OfferCall(v, t)

\* an offer stamped with the current instant
OfferNow == \E v \in KwValues : OfferCall(v, now)

NextLedger == Offer

SpecLedger == InitLedger /\ [][NextLedger]_vars

---------------------------------------------------------------------------
(* SpecScenario: direct calls of _update_max_values_with_timestamp with   *)
(* the values of test_single_peak_per_day_true_uses_daily_logic.           *)

ScenarioValues == {3, 4, 5, 7}

ScenarioOffer == \E v \in ScenarioValues, t \in OfferInstants : OfferCall(v, t)

NextScenario == ScenarioOffer

SpecScenario == InitLedger /\ [][NextScenario]_vars

---------------------------------------------------------------------------
(* SpecDaily: direct calls of _update_max_values_with_timestamp on a new   *)
(* coordinator, on more dates than the ledger has slots, with a record of  *)
(* the highest value offered on each date.                                 *)

DailyDates == 0..(MaxOfferDay + 1)

DailyInstants ==
    {d * SecondsPerDay + h * SECONDS_PER_HOUR + 60 :
        d \in DailyDates, h \in {0, HoursPerDay - 1}}

InitDaily ==
    /\ num_max_values \in Capacities
    /\ single_peak_per_day \in BOOLEAN
    /\ cycle_type = CYCLE_HOURLY
    /\ monthly_reset = FALSE
    /\ binary_sensor = FALSE
    /\ gate = GateMissing
    /\ max_values = Repeat(0, num_max_values)
    /\ max_values_timestamps = Repeat(None, num_max_values)
    /\ previous_month_max_values = <<>>
    /\ source_set = FALSE
    /\ store = NoRecord
    /\ now = 0
    /\ pu = IdlePeriod
    /\ bf = IdleRange
    /\ io = NoIo
    /\ last = NoOffer
    /\ offered = {}
    /\ probe = [fn |-> "maxima", a |-> [d \in DailyDates |-> 0], b |-> 0]
    /\ listeners = <<>>
    /\ scheduler = NoListeners
    /\ hourly = NewHourlySensor
    /\ source_state = SourceUnknown

\* _update_max_values_with_timestamp(v, t); probe.a keeps the highest value
\* offered on each date
DailyOfferCall(v, t) ==
    LET r == UpdateMaxValuesWithTimestamp(single_peak_per_day, max_values,
                 max_values_timestamps, num_max_values, v, t)
    IN  /\ max_values' = r.values
        /\ max_values_timestamps' = r.timestamps
        /\ last' = Observed(v, t, r)
        /\ probe' = [probe EXCEPT !.a[DateOf(t)] = IF v > @ THEN v ELSE @]
        /\ io' = [op |-> "offer", offers |-> 1, writes |-> 0, notifies |-> 0]
        /\ UNCHANGED <<config, platform, gate, previous_month_max_values,
                       source_set, store, now, pu, bf, offered>>

DailyOffer == \E v \in KwValues, t \in DailyInstants : DailyOfferCall(v, t)

NextDaily == DailyOffer

SpecDaily == InitDaily /\ [][NextDaily]_vars

---------------------------------------------------------------------------
(* Sample pipeline *)

\* What statistics_during_period may hand back for one window: a mapping
\* without the entity, an empty row list, a row whose mean is None, or a row
\* with a mean in watts.
NoMean == [none |-> TRUE, watts |-> 0]
Mean(w) == [none |-> FALSE, watts |-> w]

WattMeans ==
    {0 - WATTS_TO_KILOWATTS} \cup {k * WATTS_TO_KILOWATTS : k \in 0..MaxMeanKw}

StatsAbsent == [present |-> FALSE, rows |-> <<>>]

StatsResults ==
    {StatsAbsent, [present |-> TRUE, rows |-> <<>>],
     [present |-> TRUE, rows |-> <<NoMean>>]}
    \cup {[present |-> TRUE, rows |-> <<Mean(w)>>] : w \in WattMeans}

\* A query for an entity id of None finds no such key in the result.
StatsFor(src) == IF src THEN StatsResults ELSE {StatsAbsent}

\* _query_period_statistics: the mean in watts, or None
QueryPeriodStatistics(stats) ==
    IF stats.present /\ stats.rows # <<>> /\ ~stats.rows[1].none
    THEN stats.rows[1]
    ELSE NoMean

\* _watts_to_kilowatts, exact on multiples of WATTS_TO_KILOWATTS
WattsToKilowatts(w) == w \div WATTS_TO_KILOWATTS

\* the data handed to Store.async_save
SaveRecord(vals, tss, prev) ==
    [saved |-> TRUE, max_values |-> vals, max_values_timestamps |-> tss,
     previous_month_max_values |-> prev]

---------------------------------------------------------------------------
(* Spec: the coordinator driven by the host's scheduler and services.     *)
(* A coroutine is split at the await of its statistics query; the store   *)
(* write and the notification that follow an offer happen in the step of  *)
(* that offer.  At most one periodic update and one range update are in   *)
(* flight at a time, and they may interleave at their awaits.  A query in  *)
(* flight is answered before the next periodic firing, but the 00:02       *)
(* reset check may find one in flight.  The cycle type is hourly here.     *)

MutUpdateMinutes(ct) == {1}

\* update_minute
UpdateMinutes(ct) ==
    IF ct = CYCLE_QUARTERLY THEN QUARTERLY_UPDATE_MINUTES ELSE {1}

\* async_track_time_change(hour=None, minute=update_minute, second=0)
PeriodInstants(ct) ==
    {h * SECONDS_PER_HOUR + m * 60 : h \in Hours, m \in UpdateMinutes(ct)}

\* async_track_time_change(hour=0, minute=2, second=0)
ResetInstants ==
    {h * SECONDS_PER_HOUR + 2 * 60 : h \in {k \in Hours : k % HoursPerDay = 0}}

Instants == PeriodInstants(cycle_type) \cup ResetInstants

Init ==
    /\ FreshInit
    /\ binary_sensor = FALSE
    /\ gate = GateMissing
    /\ cycle_type = CYCLE_HOURLY
    /\ monthly_reset \in BOOLEAN
    /\ now = 0

\* add_entity for the "_source" sensor
AddSourceEntity ==
    /\ ~source_set
    /\ source_set' = TRUE
    /\ io' = NoIo
    /\ UNCHANGED <<config, platform, gate, ledger, previous_month_max_values, store, now,
                   pu, bf, last, offered, probe>>

\* Time passes to a later instant at which no callback is dispatched.
Advance ==
    \E t \in Instants :
        /\ t > now
        /\ pu.pc = "idle" /\ bf.pc = "idle"
        /\ now' = t
        /\ io' = NoIo
        /\ UNCHANGED <<config, platform, gate, ledger, previous_month_max_values, source_set,
                       store, pu, bf, last, offered, probe>>

\* _async_update_period up to its await of the statistics query.
AsyncUpdatePeriodStartAt(t) ==
    /\ pu.pc = "idle" /\ bf.pc = "idle"
    /\ now' = t
    /\ pu' = IF source_set
             THEN [pc |-> "query",
                   start |-> GetCurrentCycleStart(cycle_type, t),
                   now |-> t]
             ELSE pu
    /\ io' = [NoIo EXCEPT !.op = "period"]
    /\ UNCHANGED <<config, platform, gate, ledger, previous_month_max_values, source_set,
                   store, bf, last, offered, probe>>

\* a firing of the periodic callback at some later instant of its grid
AsyncUpdatePeriodStart ==
    \E t \in PeriodInstants(cycle_type) :
        t > now /\ AsyncUpdatePeriodStartAt(t)

MutIsUsableMean(m) == ~m.none

\* period_avg_watts is not None, and period_avg_watts >= 0
IsUsableMean(m) == ~m.none /\ m.watts >= 0

\* _async_update_period from the result `stats` of the query to its end.
AsyncUpdatePeriodResumeWith(stats) ==
    LET m == QueryPeriodStatistics(stats)
        r == UpdateMaxValuesWithTimestamp(single_peak_per_day, max_values,
                 max_values_timestamps, num_max_values,
                 WattsToKilowatts(m.watts), pu.now)
    IN  /\ pu.pc = "query"
        /\ pu' = IdlePeriod
        /\ IF IsUsableMean(m)
           THEN /\ max_values' = r.values
                /\ max_values_timestamps' = r.timestamps
                /\ last' = Observed(WattsToKilowatts(m.watts), pu.now, r)
                /\ IF r.ok
                   THEN /\ store' = SaveRecord(r.values, r.timestamps,
                                        previous_month_max_values)
                        /\ io' = [op |-> "period", offers |-> 1,
                                  writes |-> 1, notifies |-> 1]
                   ELSE /\ store' = store
                        /\ io' = [op |-> "period", offers |-> 1,
                                  writes |-> 0, notifies |-> 0]
           ELSE /\ UNCHANGED <<ledger, store, last>>
                /\ io' = [NoIo EXCEPT !.op = "period"]
        /\ UNCHANGED <<config, platform, gate, previous_month_max_values, source_set, now,
                       bf, offered, probe>>

AsyncUpdatePeriodResume ==
    \E stats \in StatsFor(source_set) : AsyncUpdatePeriodResumeWith(stats)

MutStartValues(reset_max, vals, n) == vals

\* if reset_max: self.max_values = [0.0] * self.num_max_values
StartValues(reset_max, vals, n) == IF reset_max THEN Repeat(0, n) ELSE vals

\* _update_max_values_from_range up to its first await.  With reset_max the
\* record of the pass carries a shadow ledger: what the offers of the pass
\* make of an empty ledger, whatever else happens to max_values.
MutCycles(start_time, end_time, ct) ==
    (end_time - start_time + SecondsPerCycle(ct) - 1) \div SecondsPerCycle(ct)

\* int((end_time - start_time).total_seconds() // self.seconds_per_cycle)
Cycles(start_time, end_time, ct) ==
    (end_time - start_time) \div SecondsPerCycle(ct)

\* cycle_start of the sub-window the loop is at
CycleStart(b, ct) == b.start + b.cycle * SecondsPerCycle(ct)

UpdateMaxValuesFromRangeStart(start_time, end_time, reset_max) ==
    LET cycles == Cycles(start_time, end_time, cycle_type)
    IN  /\ bf.pc = "idle"
        /\ max_values' = StartValues(reset_max, max_values, num_max_values)
        /\ max_values_timestamps' =
               IF reset_max THEN Repeat(None, num_max_values)
               ELSE max_values_timestamps
        /\ bf' = IF cycles = 0 THEN bf
                 ELSE [pc |-> "query", start |-> start_time, cycle |-> 0,
                       cycles |-> cycles, reset_max |-> reset_max,
                       shadow |-> IF reset_max
                                  THEN [values |-> Repeat(0, num_max_values),
                                        timestamps |->
                                            Repeat(None, num_max_values)]
                                  ELSE NoShadow]
        /\ io' = [NoIo EXCEPT !.op = "range"]
        /\ UNCHANGED <<config, platform, gate, previous_month_max_values, source_set, store,
                       now, pu, last, offered, probe>>

\* async_update_max_values_from_midnight: returns at once while the source
\* entity is not registered
AsyncUpdateMaxValuesFromMidnight ==
    IF source_set
    THEN UpdateMaxValuesFromRangeStart(Midnight(now), ReplaceMinute(now, 0),
                                       FALSE)
    ELSE /\ bf.pc = "idle"
         /\ io' = [NoIo EXCEPT !.op = "range"]
         /\ UNCHANGED <<config, platform, gate, ledger, previous_month_max_values,
                        source_set, store, now, pu, bf, last, offered, probe>>

\* async_update_max_values_to_current_month
AsyncUpdateMaxValuesToCurrentMonth ==
    UpdateMaxValuesFromRangeStart(MonthStart(now), now, TRUE)

MutCycleEnd(b, ct) == b.start + b.cycle * SecondsPerCycle(ct)

\* cycle_end of the sub-window the loop is at
CycleEnd(b, ct) == b.start + (b.cycle + 1) * SecondsPerCycle(ct)

MutIsValidCycleMean(m) == m.watts >= 0

\* cycle_avg_watts is not None and cycle_avg_watts >= 0
IsValidCycleMean(m) == ~m.none /\ m.watts >= 0

MutSavesData(b) == TRUE

\* The save and the notification stand after the loop: they are reached
\* once the last cycle of range(cycles) has been handled
SavesData(b) == b.cycle + 1 = b.cycles

\* One turn of the loop of _update_max_values_from_range: the result `stats`
\* of the query for cycle bf.cycle arrives and is offered; after the last
\* cycle the ledger is saved and the entities are notified.
UpdateMaxValuesFromRangeStepWith(stats) ==
    LET cycle_end == CycleEnd(bf, cycle_type)
        m == QueryPeriodStatistics(stats)
        valid == IsValidCycleMean(m)
        r == IF valid
             THEN UpdateMaxValuesWithTimestamp(single_peak_per_day,
                      max_values, max_values_timestamps, num_max_values,
                      WattsToKilowatts(m.watts), cycle_end)
             ELSE Result(FALSE, max_values, max_values_timestamps)
        sh == IF valid /\ bf.reset_max
              THEN UpdateMaxValuesWithTimestamp(single_peak_per_day,
                       bf.shadow.values, bf.shadow.timestamps,
                       num_max_values, WattsToKilowatts(m.watts), cycle_end)
              ELSE bf.shadow
        done == bf.cycle + 1 = bf.cycles
    IN  /\ bf.pc = "query"
        /\ max_values' = r.values
        /\ max_values_timestamps' = r.timestamps
        /\ bf' = IF done THEN IdleRange
                 ELSE [bf EXCEPT !.cycle = bf.cycle + 1,
                                 !.shadow = [values |-> sh.values,
                                             timestamps |-> sh.timestamps]]
        /\ store' = IF SavesData(bf)
                    THEN SaveRecord(r.values, r.timestamps,
                                    previous_month_max_values)
                    ELSE store
        /\ io' = [op |-> "range", offers |-> IF valid THEN 1 ELSE 0,
                  writes |-> IF SavesData(bf) THEN 1 ELSE 0,
                  notifies |-> IF SavesData(bf) THEN 1 ELSE 0]
        /\ last' = IF valid
                   THEN Observed(WattsToKilowatts(m.watts), cycle_end, r)
                   ELSE last
        /\ UNCHANGED <<config, platform, gate, previous_month_max_values, source_set, now,
                       pu, offered, probe>>

UpdateMaxValuesFromRangeStep ==
    \E stats \in StatsFor(source_set) : UpdateMaxValuesFromRangeStepWith(stats)

MutResetSnapshot(vals) == Repeat(0, Len(vals))

MutShouldResetMonthly(enabled, t) == enabled

\* if self.monthly_reset and now.day == 1
ShouldResetMonthly(enabled, t) == enabled /\ DayOfMonth(t) = 1

\* self.previous_month_max_values = self.max_values.copy()
ResetSnapshot(vals) == vals

MutResetMaxValues(vals, n) == vals

\* self.max_values = [0.0] * self.num_max_values
ResetMaxValues(vals, n) == Repeat(0, n)

\* _async_reset_monthly(now) with now = t
ResetMonthlyAt(t) ==
    /\ now' = t
    /\ IF ShouldResetMonthly(monthly_reset, t)
       THEN /\ previous_month_max_values' = ResetSnapshot(max_values)
            /\ max_values' = ResetMaxValues(max_values, num_max_values)
            /\ max_values_timestamps' = Repeat(None, num_max_values)
            /\ store' = SaveRecord(ResetMaxValues(max_values, num_max_values),
                                   Repeat(None, num_max_values),
                                   ResetSnapshot(max_values))
            /\ io' = [op |-> "reset", offers |-> 0, writes |-> 1,
                      notifies |-> 1]
       ELSE /\ UNCHANGED <<ledger, previous_month_max_values, store>>
            /\ io' = [NoIo EXCEPT !.op = "reset"]
    /\ UNCHANGED <<config, platform, gate, source_set, pu, bf, last, offered, probe>>

\* _async_reset_monthly, invoked by the scheduler at 00:02:00
AsyncResetMonthly == \E t \in ResetInstants : t > now /\ ResetMonthlyAt(t)

Next ==
    \/ AddSourceEntity
    \/ Advance
    \/ AsyncUpdatePeriodStart
    \/ AsyncUpdatePeriodResume
    \/ AsyncUpdateMaxValuesFromMidnight
    \/ AsyncUpdateMaxValuesToCurrentMonth
    \/ UpdateMaxValuesFromRangeStep
    \/ AsyncResetMonthly

Spec == Init /\ [][Next]_vars

---------------------------------------------------------------------------
(* SpecGate: the periodic update of a coordinator with or without a gate   *)
(* sensor, whose state changes between the updates.                        *)

InitGate ==
    /\ FreshInit
    /\ binary_sensor \in BOOLEAN
    /\ gate \in GateStates
    /\ cycle_type = CYCLE_HOURLY
    /\ monthly_reset = FALSE
    /\ now = 0

\* The host records a new state of the gate sensor.
GateChange ==
    \E g \in GateStates \ {gate} :
        /\ pu.pc = "idle"
        /\ gate' = g
        /\ io' = NoIo
        /\ UNCHANGED <<config, platform, ledger, previous_month_max_values, source_set,
                       store, now, pu, bf, last, offered, probe>>

NextGate ==
    \/ AddSourceEntity
    \/ GateChange
    \/ AsyncUpdatePeriodStart
    \/ AsyncUpdatePeriodResume

SpecGate == InitGate /\ [][NextGate]_vars

---------------------------------------------------------------------------
(* SpecSchedule: a coordinator that keeps running.  The host fires the    *)
(* periodic callback at every instant of its grid, one after the other,    *)
(* hourly or quarterly; the query of a firing is answered before the next. *)

\* The grid of the periodic callback over the hours the coordinator is
\* followed
ScheduleInstants(ct) ==
    {h * SECONDS_PER_HOUR + m * 60 :
        h \in 0..(MaxHour + 1), m \in UpdateMinutes(ct)}

\* async_track_time_change: the first matching instant after t
NextFiring(ct, t) ==
    CHOOSE x \in ScheduleInstants(ct) :
        /\ x > t
        /\ \A y \in ScheduleInstants(ct) : y > t => x <= y

ScheduledFiring ==
    /\ \E x \in ScheduleInstants(cycle_type) : x > now
    /\ AsyncUpdatePeriodStartAt(NextFiring(cycle_type, now))

InitSchedule ==
    /\ FreshInit
    /\ binary_sensor = FALSE
    /\ gate = GateMissing
    /\ cycle_type \in {CYCLE_HOURLY, CYCLE_QUARTERLY}
    /\ monthly_reset = FALSE
    /\ now = 0

NextSchedule ==
    \/ AddSourceEntity
    \/ ScheduledFiring
    \/ AsyncUpdatePeriodResume

SpecSchedule == InitSchedule /\ [][NextSchedule]_vars

---------------------------------------------------------------------------
(* SpecResync: the manual resync to the current month, run to its end      *)
(* without another accounting operation in between, at minute 1 of any     *)
(* hour of the clock and on whatever direct offers have left in the        *)
(* ledger.                                                                 *)

InitResync ==
    /\ FreshInit
    /\ binary_sensor = FALSE
    /\ gate = GateMissing
    /\ cycle_type = CYCLE_HOURLY
    /\ monthly_reset = FALSE
    /\ now \in PeriodInstants(CYCLE_HOURLY)

\* an offer between two passes, stamped with the current instant
PriorOffer == bf.pc = "idle" /\ OfferNow

NextResync ==
    \/ AddSourceEntity
    \/ PriorOffer
    \/ AsyncUpdateMaxValuesToCurrentMonth
    \/ UpdateMaxValuesFromRangeStep

SpecResync == InitResync /\ [][NextResync]_vars

---------------------------------------------------------------------------
(* SpecBackfill: backfills from midnight (no reset) called at any instant *)
(* of the periodic grid, hourly or quarterly, with offers between two      *)
(* passes.                                                                 *)

InitBackfill ==
    /\ FreshInit
    /\ binary_sensor = FALSE
    /\ gate = GateMissing
    /\ cycle_type \in {CYCLE_HOURLY, CYCLE_QUARTERLY}
    /\ monthly_reset = FALSE
    /\ now \in PeriodInstants(cycle_type)

NextBackfill ==
    \/ AddSourceEntity
    \/ PriorOffer
    \/ AsyncUpdateMaxValuesFromMidnight
    \/ UpdateMaxValuesFromRangeStep

SpecBackfill == InitBackfill /\ [][NextBackfill]_vars

---------------------------------------------------------------------------
(* SpecReset: direct calls of _async_reset_monthly(now) and of             *)
(* _update_max_values_with_timestamp, in any order.  The reset callback is *)
(* handed minute 2 of the first or of the last hour of day 0 (a 1st of the *)
(* month) or of the first hour of day 1 (a 2nd); an offer is stamped with  *)
(* the instant of the last call.                                           *)

ResetCallInstants ==
    {h * SECONDS_PER_HOUR + 2 * 60 : h \in {0, HoursPerDay - 1, HoursPerDay}}

InitReset ==
    /\ FreshInit
    /\ binary_sensor = FALSE
    /\ gate = GateMissing
    /\ cycle_type = CYCLE_HOURLY
    /\ monthly_reset \in BOOLEAN
    /\ now = 0

ResetCall == \E t \in ResetCallInstants : ResetMonthlyAt(t)

NextReset == OfferNow \/ ResetCall

SpecReset == InitReset /\ [][NextReset]_vars

---------------------------------------------------------------------------
(* SpecRestart: offers and reset callbacks as in SpecReset, with explicit  *)
(* saves and with restarts: a new coordinator of the same configuration is *)
(* constructed and async_setup loads what the store holds.  The store      *)
(* keeps the record as JSON: a datetime is written as its ISO 8601 string  *)
(* (date, hour, minute, second), None as null.                             *)

JsonNull == [str |-> FALSE, date |-> 0, hour |-> 0, minute |-> 0, second |-> 0]

\* datetime.isoformat(), as the store's JSON encoder writes a datetime
IsoFormat(t) ==
    IF t = None THEN JsonNull
    ELSE [str |-> TRUE, date |-> DateOf(t), hour |-> HourOf(t),
          minute |-> MinuteOf(t), second |-> SecondOf(t)]

MutParseDatetime(j) ==
    j.date * SecondsPerDay + j.hour * SECONDS_PER_HOUR

\* dt_util.parse_datetime
ParseDatetime(j) ==
    j.date * SecondsPerDay + j.hour * SECONDS_PER_HOUR + j.minute * 60
        + j.second

JsonGarbage ==
    [str |-> TRUE, date |-> None, hour |-> 0, minute |-> 0, second |-> 0]
JsonEmpty ==
    [str |-> TRUE, date |-> None, hour |-> None, minute |-> 0, second |-> 0]

\* The JSON value of a slot of the stored record
StoredJson(t) ==
    IF t = GarbageString THEN JsonGarbage
    ELSE IF t = EmptyString THEN JsonEmpty
    ELSE IsoFormat(t)

\* Store.async_load: the record as read back from its JSON form
AsyncLoad(record) ==
    [record EXCEPT !.max_values_timestamps =
        [i \in DOMAIN record.max_values_timestamps |->
            StoredJson(record.max_values_timestamps[i])]]

\* dt_util.parse_datetime(ts) on a non-empty string: None when the string is
\* not in the form of a datetime
DtParseDatetime(j) == IF j.date = None THEN None ELSE ParseDatetime(j)

\* dt_util.parse_datetime(ts) if isinstance(ts, str) and ts else ts
RestoredTimestamps(stored_timestamps) ==
    [i \in DOMAIN stored_timestamps |->
        IF stored_timestamps[i].str /\ stored_timestamps[i] # JsonEmpty
        THEN DtParseDatetime(stored_timestamps[i])
        ELSE IF stored_timestamps[i].str THEN EmptyString
        ELSE None]

\* _save_max_values_data
SaveMaxValuesData ==
    /\ store' = SaveRecord(max_values, max_values_timestamps,
                           previous_month_max_values)
    /\ io' = [op |-> "save", offers |-> 0, writes |-> 1, notifies |-> 0]
    /\ UNCHANGED <<config, platform, gate, ledger, previous_month_max_values,
                   source_set, now, pu, bf, last, offered, probe>>

\* PowerMaxCoordinator(...) followed by its async_setup: the restore of the
\* stored record into the new coordinator
AsyncSetup ==
    LET stored_data == AsyncLoad(store)
    IN  /\ IF store.saved
           THEN /\ max_values' = stored_data.max_values
                /\ max_values_timestamps' =
                       RestoredTimestamps(stored_data.max_values_timestamps)
                /\ previous_month_max_values' =
                       stored_data.previous_month_max_values
           ELSE /\ max_values' = Repeat(0, num_max_values)
                /\ max_values_timestamps' = Repeat(None, num_max_values)
                /\ previous_month_max_values' = <<>>
        /\ source_set' = FALSE
        /\ pu' = IdlePeriod
        /\ bf' = IdleRange
        /\ last' = NoOffer
        /\ io' = [NoIo EXCEPT !.op = "setup"]
        /\ UNCHANGED <<config, platform, gate, store, now, offered, probe>>

InitRestart ==
    /\ FreshInit
    /\ binary_sensor = FALSE
    /\ gate = GateMissing
    /\ cycle_type = CYCLE_HOURLY
    /\ monthly_reset = TRUE
    /\ now = 0

NextRestart ==
    \/ OfferNow
    \/ ResetCall
    \/ SaveMaxValuesData
    \/ AsyncSetup

SpecRestart == InitRestart /\ [][NextRestart]_vars

---------------------------------------------------------------------------
(* SpecCorrupt: a stored record one of whose timestamp strings has been    *)
(* damaged between the save and the next start.                            *)

\* The file of the store is changed outside the program: the timestamp
\* string of one slot becomes a string that is no datetime
CorruptSlot ==
    \E i \in DOMAIN store.max_values_timestamps,
       c \in {GarbageString, EmptyString} :
        /\ store.saved
        /\ \A j \in DOMAIN store.max_values_timestamps :
               store.max_values_timestamps[j] \notin
                   {GarbageString, EmptyString}
        /\ store' = [store EXCEPT !.max_values_timestamps[i] = c]
        /\ io' = [NoIo EXCEPT !.op = "corrupt"]
        /\ UNCHANGED <<config, platform, gate, ledger, previous_month_max_values,
                       source_set, now, pu, bf, last, offered, probe>>

\* Values offered before the save
CorruptValues == {1, MaxKw}

CorruptOffer == \E v \in CorruptValues : OfferCall(v, now)

NextCorrupt ==
    \/ CorruptOffer
    \/ ResetCall
    \/ SaveMaxValuesData
    \/ CorruptSlot
    \/ AsyncSetup

InitCorrupt ==
    /\ InitRestart
    /\ single_peak_per_day = FALSE

SpecCorrupt == InitCorrupt /\ [][NextCorrupt]_vars

---------------------------------------------------------------------------
(* SpecUnload: a coordinator that is set up, runs on the host's schedule   *)
(* and is unloaded at any moment, also while a query is in flight.  The    *)
(* coroutines that are suspended at the unload run on to their end.        *)

\* async_track_time_change: from now on the host fires the callback
TrackTimeChange(s, hs) ==
    [h \in Handles |->
        IF h \in hs THEN [s[h] EXCEPT !.active = TRUE] ELSE s[h]]

\* async_setup: the handles appended to self._listeners
SetupListeners(reset) ==
    IF reset THEN <<"period", "reset">> ELSE <<"period">>

\* async_setup, the registration of the listeners; it is run once for a
\* coordinator
RegisterListeners ==
    /\ listeners = <<>>
    /\ \A h \in Handles : ~scheduler[h].active /\ scheduler[h].cancels = 0
    /\ listeners' = SetupListeners(monthly_reset)
    /\ scheduler' = TrackTimeChange(scheduler,
                                    Range(SetupListeners(monthly_reset)))
    /\ io' = [NoIo EXCEPT !.op = "setup"]
    /\ UNCHANGED <<config, gate, ledger, previous_month_max_values,
                   source_set, store, now, pu, bf, last, offered, probe,
                   hourly, source_state>>

MutCancelAll(s, ls) == s

\* for listener in self._listeners: listener() -- every call of a cancel
\* handle is counted, and the host stops firing the callback
CancelAll(s, ls) ==
    [h \in Handles |->
        IF h \in Range(ls)
        THEN [active |-> FALSE,
              cancels |-> s[h].cancels
                              + Cardinality({i \in DOMAIN ls : ls[i] = h})]
        ELSE s[h]]

\* async_unload
AsyncUnload ==
    /\ scheduler' = CancelAll(scheduler, listeners)
    /\ listeners' = <<>>
    /\ io' = [NoIo EXCEPT !.op = "unload"]
    /\ UNCHANGED <<config, gate, ledger, previous_month_max_values,
                   source_set, store, now, pu, bf, last, offered, probe,
                   hourly, source_state>>

\* async_unload has cancelled a listener of the coordinator
Unloaded == \E h \in Handles : scheduler[h].cancels > 0

\* the host fires the periodic callback while it holds it
TimePeriodFires == scheduler["period"].active /\ AsyncUpdatePeriodStart

\* the host fires the 00:02 callback while it holds it
TimeResetFires == scheduler["reset"].active /\ AsyncResetMonthly

\* the backfill is requested by an entity or a service of the loaded entry
BackfillRequested == ~Unloaded /\ AsyncUpdateMaxValuesFromMidnight

InitUnload ==
    /\ FreshInit
    /\ binary_sensor = FALSE
    /\ gate = GateMissing
    /\ cycle_type = CYCLE_HOURLY
    /\ monthly_reset \in BOOLEAN
    /\ now = 0

NextUnload ==
    \/ AddSourceEntity
    \/ RegisterListeners
    \/ TimePeriodFires
    \/ AsyncUpdatePeriodResume
    \/ BackfillRequested
    \/ UpdateMaxValuesFromRangeStep
    \/ TimeResetFires
    \/ AsyncUnload

SpecUnload == InitUnload /\ [][NextUnload]_vars

---------------------------------------------------------------------------
(* SpecInterleave: one backfill, one periodic update and one month-end     *)
(* reset on a quarterly coordinator around the midnight that begins a      *)
(* month.  The backfill from midnight was called at 23:59 and awaits the   *)
(* first of its queries, the periodic callback has fired at 00:01 and      *)
(* awaits its query, and the reset callback fires at 00:02.  The results   *)
(* of the queries are fixed from the start, so that the same operations    *)
(* can be run one after the other.                                         *)

BackfillCalledAt == 0 - 60          \* 23:59:00 of the day before day 0
PeriodFiredAt == 60                 \* 00:01:00 of day 0
ResetFiresAt == 2 * 60              \* 00:02:00 of day 0

InterleaveResults ==
    {StatsAbsent, [present |-> TRUE, rows |-> <<Mean(WATTS_TO_KILOWATTS)>>],
     [present |-> TRUE, rows |-> <<Mean(2 * WATTS_TO_KILOWATTS)>>]}

BackfillStartTime == Midnight(BackfillCalledAt)
BackfillCycles ==
    Cycles(BackfillStartTime, ReplaceMinute(BackfillCalledAt, 0),
           CYCLE_QUARTERLY)

InitInterleave ==
    /\ num_max_values \in Capacities
    /\ single_peak_per_day \in BOOLEAN
    /\ cycle_type = CYCLE_QUARTERLY
    /\ monthly_reset = TRUE
    /\ binary_sensor = FALSE
    /\ gate = GateMissing
    /\ max_values = Repeat(0, num_max_values)
    /\ max_values_timestamps = Repeat(None, num_max_values)
    /\ previous_month_max_values = <<>>
    /\ source_set = TRUE
    /\ store = NoRecord
    /\ now = PeriodFiredAt
    /\ pu = [pc |-> "query",
             start |-> GetCurrentCycleStart(CYCLE_QUARTERLY, PeriodFiredAt),
             now |-> PeriodFiredAt]
    /\ bf = [pc |-> "query", start |-> BackfillStartTime, cycle |-> 0,
             cycles |-> BackfillCycles, reset_max |-> FALSE,
             shadow |-> NoShadow]
    /\ io = NoIo
    /\ last = NoOffer
    /\ offered = {}
    /\ probe \in [fn : {"results"},
                  a : [1..BackfillCycles -> InterleaveResults],
                  b : InterleaveResults]
    /\ listeners = <<>>
    /\ scheduler = NoListeners
    /\ hourly = NewHourlySensor
    /\ source_state = SourceUnknown

\* the query of the backfill's current cycle returns
BackfillResumes == UpdateMaxValuesFromRangeStepWith(probe.a[bf.cycle + 1])

\* the query of the periodic update returns
PeriodResumes == AsyncUpdatePeriodResumeWith(probe.b)

\* the host fires the reset callback at 00:02
ResetFires == now < ResetFiresAt /\ ResetMonthlyAt(ResetFiresAt)

NextInterleave ==
    \/ BackfillResumes
    \/ PeriodResumes
    \/ ResetFires

SpecInterleave == InitInterleave /\ [][NextInterleave]_vars

\* The three lists of a coordinator, and each operation run from its call to
\* its return with nothing in between.
Lists(vals, tss, prev) ==
    [values |-> vals, timestamps |-> tss, previous |-> prev]

OfferTo(L, stats, t) ==
    LET m == QueryPeriodStatistics(stats)
        r == UpdateMaxValuesWithTimestamp(single_peak_per_day, L.values,
                 L.timestamps, num_max_values, WattsToKilowatts(m.watts), t)
    IN  IF IsUsableMean(m) THEN Lists(r.values, r.timestamps, L.previous)
        ELSE L

\* _async_update_period(now), run alone
PeriodAlone(L) == OfferTo(L, probe.b, PeriodFiredAt)

RECURSIVE RangeFrom(_, _)
RangeFrom(L, cycle) ==
    IF cycle = BackfillCycles THEN L
    ELSE RangeFrom(OfferTo(L, probe.a[cycle + 1],
                           BackfillStartTime
                               + (cycle + 1) * SecondsPerCycle(CYCLE_QUARTERLY)),
                   cycle + 1)

\* _update_max_values_from_range(start_time, end_time, False), run alone
RangeAlone(L) == RangeFrom(L, 0)

\* _async_reset_monthly(now), run alone
ResetAlone(L) ==
    IF ShouldResetMonthly(monthly_reset, ResetFiresAt)
    THEN Lists(ResetMaxValues(L.values, num_max_values),
               Repeat(None, num_max_values), ResetSnapshot(L.values))
    ELSE L

\* what the executions of the three operations one after the other, in any
\* order, make of a new coordinator
SerialOutcomes ==
    LET L == Lists(Repeat(0, num_max_values), Repeat(None, num_max_values),
                   <<>>)
    IN  {RangeAlone(PeriodAlone(ResetAlone(L))),
         RangeAlone(ResetAlone(PeriodAlone(L))),
         PeriodAlone(RangeAlone(ResetAlone(L))),
         PeriodAlone(ResetAlone(RangeAlone(L))),
         ResetAlone(RangeAlone(PeriodAlone(L))),
         ResetAlone(PeriodAlone(RangeAlone(L)))}

---------------------------------------------------------------------------
(* SpecDowntime: a coordinator with the monthly reset that runs in month 0 *)
(* on the host's schedule; the host stops, stays down for a while and      *)
(* starts again in month 0 or in month 1, where a new coordinator restores *)
(* what the store holds.                                                   *)

\* 00:00:00 of the 1st of month 1
NextMonthStart == DaysPerMonth * SecondsPerDay

\* the 00:02:00 check on the 1st of month 1
NextMonthCheck == NextMonthStart + 2 * 60

\* Instants at which the host is up again: 00:01 and 00:03 of the last day
\* of month 0, of the 1st of month 1 and of the 2nd of month 1
RestartInstants ==
    {d * SecondsPerDay + m * 60 :
        d \in (DaysPerMonth - 1)..(DaysPerMonth + 1), m \in {1, 3}}

\* the host process is up
HostRunning == io.op # "stop"

\* The host stops (with or without unloading) and is down until t: what the
\* coordinator held in memory is gone with the process.
HostStopsUntil(t) ==
    /\ HostRunning
    /\ t > now
    /\ now' = t
    /\ source_set' = FALSE
    /\ pu' = IdlePeriod
    /\ bf' = IdleRange
    /\ io' = [NoIo EXCEPT !.op = "stop"]
    /\ UNCHANGED <<config, platform, gate, ledger, previous_month_max_values,
                   store, last, offered, probe>>

HostStops == \E t \in RestartInstants : HostStopsUntil(t)

\* the host starts: PowerMaxCoordinator(...) and its async_setup
HostStarts == ~HostRunning /\ AsyncSetup

\* the running host fires the 00:02 callback on the 1st of month 1; the
\* queries of month 0 have been answered by then
NextMonthResetFires ==
    /\ HostRunning
    /\ pu.pc = "idle" /\ bf.pc = "idle"
    /\ now < NextMonthCheck
    /\ ResetMonthlyAt(NextMonthCheck)

InitDowntime ==
    /\ FreshInit
    /\ binary_sensor = FALSE
    /\ gate = GateMissing
    /\ cycle_type = CYCLE_HOURLY
    /\ monthly_reset = TRUE
    /\ now = 0

NextDowntime ==
    \/ HostRunning /\ AddSourceEntity
    \/ HostRunning /\ AsyncUpdatePeriodStart
    \/ HostRunning /\ AsyncUpdatePeriodResume
    \/ HostRunning /\ AsyncResetMonthly
    \/ NextMonthResetFires
    \/ HostStops
    \/ HostStarts

SpecDowntime == InitDowntime /\ [][NextDowntime]_vars

---------------------------------------------------------------------------
(* SpecEnergy: the HourlyAveragePowerSensor of an entry with or without a  *)
(* gate sensor, from its addition to the host: state changes of the source *)
(* and of the gate every twenty minutes at most, and the reset at the      *)
(* start of every hour.  The power scaling factor is 1.                    *)

EnergyInstants ==
    {h * SECONDS_PER_HOUR + m * 60 : h \in 0..(MaxHour - 1), m \in {0, 20, 40}}

SourceStates ==
    {SourceUnknown} \cup
    {[known |-> TRUE, watts |-> k * WATTS_TO_KILOWATTS] : k \in 1..MaxMeanKw}

\* GatedSensorEntity._can_update
CanUpdate(binary, g) == ~binary \/ g = "on"

\* _async_state_changed at the instant t, the gate allowing updates or not
\* and the source in state src
StateChanged(s, can, src, t) ==
    IF s.last_time = None THEN [s EXCEPT !.last_time = t]
    ELSE IF can /\ src.known
    THEN LET current_power == IF src.watts < 0 THEN 0 ELSE src.watts
             delta_seconds == t - s.last_time
         IN  [accumulated_energy |->
                  IF delta_seconds > 0
                  THEN s.accumulated_energy
                           + (s.last_power + current_power) * delta_seconds
                  ELSE s.accumulated_energy,
              last_power |-> current_power,
              last_time |-> t]
    ELSE [s EXCEPT !.last_power = 0]

\* async_added_to_hass without stored data
AsyncAddedToHass ==
    /\ hourly.last_time = None
    /\ hourly' = [accumulated_energy |-> 0, last_power |-> 0,
                  last_time |-> now]
    /\ io' = [NoIo EXCEPT !.op = "added"]
    /\ UNCHANGED <<config, gate, ledger, previous_month_max_values,
                   source_set, store, now, pu, bf, last, offered, probe,
                   listeners, scheduler, source_state>>

\* the state of the source or of the gate changes at the instant t, and the
\* host calls _async_state_changed
AsyncStateChanged ==
    \E t \in EnergyInstants, g \in GateStates, src \in SourceStates :
        /\ hourly.last_time # None
        /\ t > now
        /\ g # gate \/ src # source_state
        /\ binary_sensor \/ g = gate
        /\ now' = t
        /\ gate' = g
        /\ source_state' = src
        /\ hourly' = StateChanged(hourly, CanUpdate(binary_sensor, g), src, t)
        /\ io' = [NoIo EXCEPT !.op = "state_changed"]
        /\ UNCHANGED <<config, ledger, previous_month_max_values, source_set,
                       store, pu, bf, last, offered, probe, listeners,
                       scheduler>>

\* _async_hour_start(now), fired at minute 0 of an hour
AsyncHourStart ==
    \E t \in EnergyInstants :
        /\ hourly.last_time # None
        /\ t > now
        /\ MinuteOf(t) = 0
        /\ now' = t
        /\ hourly' = [accumulated_energy |-> 0, last_power |-> 0,
                      last_time |-> t]
        /\ io' = [NoIo EXCEPT !.op = "hour_start"]
        /\ UNCHANGED <<config, gate, ledger, previous_month_max_values,
                       source_set, store, pu, bf, last, offered, probe,
                       listeners, scheduler, source_state>>

InitEnergy ==
    /\ FreshInit
    /\ binary_sensor \in BOOLEAN
    /\ gate \in (IF binary_sensor THEN GateStates ELSE {GateMissing})
    /\ cycle_type = CYCLE_HOURLY
    /\ monthly_reset = FALSE
    /\ now = 0

NextEnergy ==
    \/ AsyncAddedToHass
    \/ AsyncStateChanged
    \/ AsyncHourStart

SpecEnergy == InitEnergy /\ [][NextEnergy]_vars

---------------------------------------------------------------------------
(* SpecReload: an entry whose capacity is reconfigured.  The reload builds *)
(* a new coordinator for the same entry id, hence over the same store, and *)
(* its async_setup restores what the coordinator before it saved.          *)

\* PowerMaxCoordinator(hass, entry) with capacity num_max, followed by its
\* async_setup
ReloadEntryWith(num_max) ==
    LET stored_data == AsyncLoad(store)
    IN  /\ num_max_values' = num_max
        /\ IF store.saved
           THEN /\ max_values' = stored_data.max_values
                /\ max_values_timestamps' =
                       RestoredTimestamps(stored_data.max_values_timestamps)
                /\ previous_month_max_values' =
                       stored_data.previous_month_max_values
           ELSE /\ max_values' = Repeat(0, num_max)
                /\ max_values_timestamps' = Repeat(None, num_max)
                /\ previous_month_max_values' = <<>>
        /\ source_set' = FALSE
        /\ pu' = IdlePeriod
        /\ bf' = IdleRange
        /\ last' = NoOffer
        /\ io' = [NoIo EXCEPT !.op = "setup"]
        /\ UNCHANGED <<single_peak_per_day, cycle_type, monthly_reset,
                       binary_sensor, gate, store, now, offered, probe,
                       platform>>

ReloadEntry == \E num_max \in Capacities : ReloadEntryWith(num_max)

NextReload ==
    \/ OfferNow
    \/ SaveMaxValuesData
    \/ ReloadEntry

SpecReload == InitLedger /\ [][NextReload]_vars

---------------------------------------------------------------------------
(* SpecConstruct: the ways a coordinator comes to be constructed, with    *)
(* requested capacities inside and outside the range 1..10.               *)

\* Requested capacities: -1 .. MaxCapacityInput
CapacityInputs == (-1)..MaxCapacityInput

CycleTypes == {CYCLE_HOURLY, CYCLE_QUARTERLY}

\* _validate_num_max_values (the requested capacities are integers, so the
\* int() of the source leaves them as they are)
ValidateNumMaxValues(num_max) == 1 <= num_max /\ num_max <= 10

\* PowerMaxCoordinator.__init__: the configuration is copied as given and
\* the ledger is [0.0] * num_max_values, [None] * num_max_values; a
\* non-positive count gives the empty list
CoordinatorInit(num_max, reset, binary, single, cycle) ==
    /\ num_max_values' = num_max
    /\ monthly_reset' = reset
    /\ binary_sensor' = binary
    /\ single_peak_per_day' = single
    /\ cycle_type' = cycle
    /\ source_set' = FALSE
    /\ max_values' = Repeat(0, num_max)
    /\ max_values_timestamps' = Repeat(None, num_max)
    /\ previous_month_max_values' = <<>>
    /\ io' = [NoIo EXCEPT !.op = "construct"]
    /\ UNCHANGED <<gate, store, now, pu, bf, last, offered, probe, platform>>

\* The form or import was refused: no entry, no coordinator
InvalidMaxValues ==
    /\ io' = [NoIo EXCEPT !.op = "invalid_max_values"]
    /\ UNCHANGED <<config, platform, gate, ledger, previous_month_max_values,
                   source_set, store, now, pu, bf, last, offered, probe>>

\* async_step_user / async_step_import / async_step_reconfigure: the
\* submitted count is validated; a valid submission becomes an entry, which
\* is then set up
AsyncStepUser ==
    \E num_max \in CapacityInputs, reset \in BOOLEAN, binary \in BOOLEAN :
        IF ValidateNumMaxValues(num_max)
        THEN CoordinatorInit(num_max, reset, binary, FALSE, CYCLE_HOURLY)
        ELSE InvalidMaxValues

\* async_setup_entry: the coordinator is constructed from the data of the
\* entry it is handed, as stored
AsyncSetupEntry ==
    \E num_max \in CapacityInputs, reset \in BOOLEAN, binary \in BOOLEAN,
       single \in BOOLEAN, cycle \in CycleTypes :
        CoordinatorInit(num_max, reset, binary, single, cycle)

\* async_setup_platform: the YAML platform checks the count, logs an error
\* and returns when it is out of range, and constructs otherwise
AsyncSetupPlatform ==
    \E num_max \in CapacityInputs, reset \in BOOLEAN, binary \in BOOLEAN :
        IF 1 <= num_max /\ num_max <= 10
        THEN CoordinatorInit(num_max, reset, binary, FALSE, CYCLE_HOURLY)
        ELSE /\ io' = [NoIo EXCEPT !.op = "error"]
             /\ UNCHANGED <<config, platform, gate, ledger, previous_month_max_values,
                            source_set, store, now, pu, bf, last, offered,
                            probe>>

InitConstruct ==
    /\ FreshInit
    /\ binary_sensor = FALSE
    /\ gate = GateMissing
    /\ cycle_type = CYCLE_HOURLY
    /\ monthly_reset = FALSE
    /\ now = 0

NextConstruct ==
    \/ AsyncStepUser
    \/ AsyncSetupEntry
    \/ AsyncSetupPlatform

SpecConstruct == InitConstruct /\ [][NextConstruct]_vars

---------------------------------------------------------------------------
(* SpecFlow: the paths of the config flow that end in an entry, the       *)
(* coordinator built from the entry's data, and offers to it.             *)

\* dict.get(key, default)
Get(data, key, default) == IF key \in DOMAIN data THEN data[key] ELSE default

\* What a path hands to _create_entry / _update_entry: the basic
\* configuration combined with the time configuration
FlowInputs ==
    [num_max_values : CapacityInputs, monthly_reset : BOOLEAN,
     binary_sensor : BOOLEAN, single_peak_per_day : BOOLEAN]

\* _normalize_config_data: the keys the entry data are built from (those of
\* the price, the scaling and the time window are left out of the model)
NormalizeConfigData(data) ==
    [monthly_reset |-> Get(data, "monthly_reset", FALSE),
     num_max_values |-> Get(data, "num_max_values", 2),
     binary_sensor |-> Get(data, "binary_sensor", FALSE)]

\* PowerMaxCoordinator(hass, entry): each field is entry.data.get(key,
\* default)
CoordinatorFromEntry(data) ==
    CoordinatorInit(Get(data, "num_max_values", 2),
                    Get(data, "monthly_reset", FALSE),
                    Get(data, "binary_sensor", FALSE),
                    Get(data, "single_peak_per_day", FALSE),
                    Get(data, "cycle_type", CYCLE_HOURLY))

\* _create_entry / _update_entry followed by the set-up of the entry
CreateEntry(data) == CoordinatorFromEntry(NormalizeConfigData(data))

\* _update_entry followed by the reload of the entry
UpdateEntry(data) == CoordinatorFromEntry(NormalizeConfigData(data))

\* async_abort(reason="invalid_max_values"): no entry, no coordinator
AbortInvalidMaxValues ==
    /\ io' = [NoIo EXCEPT !.op = "abort"]
    /\ UNCHANGED <<config, platform, gate, ledger, previous_month_max_values,
                   source_set, store, now, pu, bf, last, offered, probe>>

\* async_step_user -> async_step_time_config with the combined input `data`
AsyncStepTimeConfigWith(data) ==
    IF ValidateNumMaxValues(Get(data, "num_max_values", 2))
    THEN CreateEntry(data)
    ELSE InvalidMaxValues

AsyncStepTimeConfig == \E data \in FlowInputs : AsyncStepTimeConfigWith(data)

\* async_step_import
AsyncStepImportWith(data) ==
    IF ValidateNumMaxValues(Get(data, "num_max_values", 2))
    THEN CreateEntry(data)
    ELSE AbortInvalidMaxValues

AsyncStepImport == \E data \in FlowInputs : AsyncStepImportWith(data)

\* async_step_reconfigure -> async_step_reconfigure_time
AsyncStepReconfigureTimeWith(data) ==
    IF ValidateNumMaxValues(Get(data, "num_max_values", 2))
    THEN UpdateEntry(data)
    ELSE InvalidMaxValues

AsyncStepReconfigureTime ==
    \E data \in FlowInputs : AsyncStepReconfigureTimeWith(data)

NextFlow ==
    \/ AsyncStepTimeConfig
    \/ AsyncStepImport
    \/ AsyncStepReconfigureTime
    \/ OfferNow

SpecFlow == InitConstruct /\ [][NextFlow]_vars

---------------------------------------------------------------------------
(* SpecService: the two services of the integration, called on the        *)
(* registered coordinator, with or without a gate sensor in any state.     *)

\* The methods and properties class PowerMaxCoordinator defines
CoordinatorMethods ==
    {"__init__", "period", "seconds_per_cycle", "update_hour",
     "update_minute", "update_second", "_get_current_cycle_start",
     "add_entity", "_auto_detect_scaling_factor", "async_setup",
     "_save_max_values_data", "_is_valid_entity", "average_max_value",
     "previous_month_average_max_value", "_watts_to_kilowatts",
     "_update_max_values_with_timestamp",
     "_update_hourly_max_values_with_timestamp", "_sort_and_slice_combined",
     "_update_daily_max_values_with_timestamp", "_query_period_statistics",
     "_update_max_values_from_range", "_async_update_period",
     "async_update_max_values_from_midnight",
     "async_update_max_values_to_current_month", "_update_entities",
     "_async_reset_monthly", "async_unload"}

\* The attribute lookup on the coordinator fails: the service call ends with
\* the exception and nothing of the coordinator has changed
AttributeError ==
    /\ io' = [NoIo EXCEPT !.op = "AttributeError"]
    /\ UNCHANGED <<config, platform, gate, ledger, previous_month_max_values,
                   source_set, store, now, pu, bf, last, offered, probe>>

\* await coord.<name>() in a service handler
CallCoordinator(name) ==
    IF name \notin CoordinatorMethods
    THEN AttributeError
    ELSE CASE name = "async_update_max_values_from_midnight" ->
                  AsyncUpdateMaxValuesFromMidnight
           [] name = "async_update_max_values_to_current_month" ->
                  AsyncUpdateMaxValuesToCurrentMonth

\* update_max_values_service
UpdateMaxValuesService ==
    CallCoordinator("async_update_max_values_from_midnight")

\* reset_max_values_service
ResetMaxValuesService ==
    CallCoordinator("async_reset_max_values_manually")

InitService ==
    /\ FreshInit
    /\ binary_sensor \in BOOLEAN
    /\ gate \in GateStates
    /\ cycle_type = CYCLE_HOURLY
    /\ monthly_reset = FALSE
    /\ now \in PeriodInstants(CYCLE_HOURLY)

NextService ==
    \/ AddSourceEntity
    \/ GateChange
    \/ UpdateMaxValuesService
    \/ ResetMaxValuesService
    \/ UpdateMaxValuesFromRangeStep

SpecService == InitService /\ [][NextService]_vars

---------------------------------------------------------------------------
(* SpecClock: the window of the periodic update, for every instant of the *)
(* model calendar and both cycle types.                                    *)

ClockInstants ==
    {h * SECONDS_PER_HOUR + m * 60 + sec :
        h \in Hours, m \in 0..59, sec \in {0, 30, 59}}

InitClock ==
    /\ FreshInit
    /\ binary_sensor = FALSE
    /\ gate = GateMissing
    /\ num_max_values = 1
    /\ ~single_peak_per_day
    /\ cycle_type \in {CYCLE_HOURLY, CYCLE_QUARTERLY}
    /\ monthly_reset = FALSE
    /\ now \in ClockInstants

\* start_time and end_time of _async_update_period(now)
CycleWindow ==
    /\ probe.fn = "none"
    /\ LET start_time == GetCurrentCycleStart(cycle_type, now)
       IN  probe' = [fn |-> "cycle", a |-> start_time,
                     b |-> start_time + SecondsPerCycle(cycle_type)]
    /\ UNCHANGED <<config, platform, gate, ledger, previous_month_max_values, source_set,
                   store, now, pu, bf, io, last, offered>>

NextClock == CycleWindow

SpecClock == InitClock /\ [][NextClock]_vars

---------------------------------------------------------------------------
(* SpecQuery: the statistics queries of one periodic update, at every     *)
(* instant of the periodic grid and for both cycle types.                  *)

\* period
Period(ct) == IF ct = CYCLE_QUARTERLY THEN "15min" ELSE "hour"

\* The calls of statistics_during_period that _query_period_statistics
\* makes for [start_time, end_time): one, over the whole window
StatisticsCalls(ct, start_time, end_time) ==
    <<[start |-> start_time, end |-> end_time, period |-> Period(ct)]>>

\* What the recorder may hand back for a window: as StatsResults, and row
\* lists of three rows
WindowResults ==
    StatsResults
    \cup {[present |-> TRUE, rows |-> <<Mean(a), Mean(b), Mean(c)>>] :
             a \in WattMeans, b \in WattMeans, c \in WattMeans}

\* _async_update_period(now) from its cycle window to the value it takes as
\* period_avg_watts: the calls made and the mean returned
PeriodQuery ==
    \E stats \in WindowResults :
        LET start_time == GetCurrentCycleStart(cycle_type, now)
            end_time == start_time + SecondsPerCycle(cycle_type)
        IN  /\ probe.fn = "none"
            /\ probe' = [fn |-> "query",
                         a |-> StatisticsCalls(cycle_type, start_time,
                                               end_time),
                         b |-> QueryPeriodStatistics(stats),
                         rows |-> stats.rows]
            /\ UNCHANGED <<config, platform, gate, ledger, previous_month_max_values,
                           source_set, store, now, pu, bf, io, last,
                           offered>>

InitQuery ==
    /\ FreshInit
    /\ binary_sensor = FALSE
    /\ gate = GateMissing
    /\ cycle_type \in {CYCLE_HOURLY, CYCLE_QUARTERLY}
    /\ monthly_reset = FALSE
    /\ now \in PeriodInstants(cycle_type)

NextQuery == PeriodQuery

SpecQuery == InitQuery /\ [][NextQuery]_vars

---------------------------------------------------------------------------
(* SpecAverage: the two average properties read on every list the ledger  *)
(* can hold: kW values in descending order, the unfilled slots 0.          *)

RECURSIVE ListsUpTo(_, _)
ListsUpTo(S, n) ==
    IF n = 0 THEN {<<>>}
    ELSE LET shorter == ListsUpTo(S, n - 1)
         IN  shorter \cup {Append(l, x) : l \in shorter, x \in S}

AverageInputs ==
    {l \in ListsUpTo(KwValues, MaxListLen) :
        \A i \in 1..(Len(l) - 1) : l[i] >= l[i + 1]}

RECURSIVE Sum(_)
Sum(s) == IF s = <<>> THEN 0 ELSE s[1] + Sum(Tail(s))

\* A quotient num / den is kept as the pair (a, b) = (num, den).
Quotient(fn, num, den) == [fn |-> fn, a |-> num, b |-> den]

\* sum(values) / len(values) if values else 0.0
Average(fn, values) ==
    IF values # <<>> THEN Quotient(fn, Sum(values), Len(values))
    ELSE Quotient(fn, 0, 1)

InitAverage ==
    /\ num_max_values = MaxCapacity
    /\ binary_sensor = FALSE
    /\ gate = GateMissing
    /\ single_peak_per_day = FALSE
    /\ cycle_type = CYCLE_HOURLY
    /\ monthly_reset = FALSE
    /\ max_values \in AverageInputs
    /\ max_values_timestamps = Repeat(None, Len(max_values))
    /\ previous_month_max_values = max_values
    /\ source_set = FALSE
    /\ store = NoRecord
    /\ now = 0
    /\ pu = IdlePeriod
    /\ bf = IdleRange
    /\ io = NoIo
    /\ last = NoOffer
    /\ offered = {}
    /\ probe = NoProbe
    /\ listeners = <<>>
    /\ scheduler = NoListeners
    /\ hourly = NewHourlySensor
    /\ source_state = SourceUnknown

\* the property average_max_value
AverageMaxValue ==
    /\ probe' = Average("average_max_value", max_values)
    /\ UNCHANGED <<config, platform, gate, ledger, previous_month_max_values, source_set,
                   store, now, pu, bf, io, last, offered>>

\* the property previous_month_average_max_value
PreviousMonthAverageMaxValue ==
    /\ probe' = Average("previous_month_average_max_value",
                        previous_month_max_values)
    /\ UNCHANGED <<config, platform, gate, ledger, previous_month_max_values, source_set,
                   store, now, pu, bf, io, last, offered>>

NextAverage == AverageMaxValue \/ PreviousMonthAverageMaxValue

SpecAverage == InitAverage /\ [][NextAverage]_vars

---------------------------------------------------------------------------
(* Properties of the ledger *)

Pairs(vals, tss) == Zip(vals, tss)

\* b holds the elements of a, each as often, in some order
IsPermutationOf(a, b) ==
    /\ Len(a) = Len(b)
    /\ \E f \in Permutations(DOMAIN a) : \A i \in DOMAIN a : a[i] = b[f[i]]

IsSortedDesc(s) == \A i \in 1..(Len(s) - 1) : s[i] >= s[i + 1]

SetMax(S) == CHOOSE x \in S : \A y \in S : y <= x

\* The n largest members of S in descending order, padded with 0.
RECURSIVE TopNPadded(_, _)
TopNPadded(S, n) ==
    IF n = 0 THEN <<>>
    ELSE IF S = {} THEN <<0>> \o TopNPadded(S, n - 1)
    ELSE <<SetMax(S)>> \o TopNPadded(S \ {SetMax(S)}, n - 1)

\* C2: in MULTI_PEAK mode an offer of a value already present in max_values
\* returns False and leaves max_values and max_values_timestamps unchanged,
\* whatever the timestamp.
C2_NoDuplicateValues ==
    [][\A v \in KwValues, t \in OfferInstants :
          (~single_peak_per_day /\ v \in Range(max_values) /\ OfferCall(v, t))
          => /\ ~last'.ok
             /\ max_values' = max_values
             /\ max_values_timestamps' = max_values_timestamps]_vars

C2_Witness ==
    /\ ~single_peak_per_day
    /\ last.op = "offer" /\ last.dup /\ last.value > 0 /\ ~last.ok
    /\ last.value \in Range(max_values)

\* C4: in ONE_PER_DAY mode no two populated slots carry timestamps of the
\* same calendar date.
C4_OnePerDay ==
    single_peak_per_day =>
        \A i, j \in DOMAIN max_values_timestamps :
            (/\ i # j
             /\ max_values_timestamps[i] # None
             /\ max_values_timestamps[j] # None)
            => DateOf(max_values_timestamps[i]) # DateOf(max_values_timestamps[j])

C4_Witness ==
    /\ single_peak_per_day
    /\ last.op = "offer" /\ last.same_date /\ last.ok
    /\ num_max_values >= 2
    /\ \A i \in DOMAIN max_values_timestamps : max_values_timestamps[i] # None

\* The slot that carries the date of t.
DateSlot(t) ==
    CHOOSE i \in DOMAIN max_values_timestamps :
        /\ max_values_timestamps[i] # None
        /\ DateOf(max_values_timestamps[i]) = DateOf(t)

HasDateSlot(t) ==
    \E i \in DOMAIN max_values_timestamps :
        /\ max_values_timestamps[i] # None
        /\ DateOf(max_values_timestamps[i]) = DateOf(t)

\* C5: in ONE_PER_DAY mode, when a slot already carries the date of the
\* offered timestamp, the offer is accepted iff the value is strictly greater
\* than that slot's value; accepted, the slot takes the new value and
\* timestamp and the pairs are re-sorted by value; rejected, nothing changes.
C5_SameDateRule ==
    [][\A v \in KwValues, t \in OfferInstants :
          (single_peak_per_day /\ HasDateSlot(t) /\ OfferCall(v, t))
          => LET i == DateSlot(t)
                 replaced == Pairs([max_values EXCEPT ![i] = v],
                                   [max_values_timestamps EXCEPT ![i] = t])
             IN  /\ last'.ok = (v > max_values[i])
                 /\ last'.ok =>
                        /\ IsPermutationOf(
                               Pairs(max_values', max_values_timestamps'),
                               replaced)
                        /\ IsSortedDesc(max_values')
                 /\ ~last'.ok =>
                        /\ max_values' = max_values
                        /\ max_values_timestamps' = max_values_timestamps]_vars

\* a same-date offer was accepted and moved its slot to the front
C5_Witness ==
    /\ single_peak_per_day
    /\ last.op = "offer" /\ last.same_date /\ last.ok
    /\ num_max_values >= 2
    /\ max_values[1] = last.value
    /\ max_values[2] > 0

\* C6: in MULTI_PEAK mode max_values is the N largest distinct positive
\* values offered so far, descending, padded with 0; and an offer returns
\* True exactly when it changed max_values.
C6_TopN ==
    ~single_peak_per_day =>
        /\ max_values = TopNPadded(offered, num_max_values)
        /\ last.op = "offer" => (last.ok = last.changed)

\* more distinct values were offered than fit, and the last one was rejected
C6_Witness ==
    /\ ~single_peak_per_day
    /\ Cardinality(offered) > num_max_values
    /\ last.op = "offer" /\ ~last.ok /\ ~last.dup /\ last.value > 0

\* C7: an accepted offer places its own (value, timestamp) pair; every other
\* filled slot holds a pair the ledger held before the offer (a shifted
\* value keeps its timestamp); unfilled slots carry None.
C7_TimestampAlignment ==
    [][\A v \in KwValues, t \in OfferInstants :
          OfferCall(v, t)
          => /\ last'.ok => \E j \in DOMAIN max_values' :
                               /\ max_values'[j] = v
                               /\ max_values_timestamps'[j] = t
             /\ \A j \in DOMAIN max_values' :
                   IF max_values'[j] = 0
                   THEN max_values_timestamps'[j] = None
                   ELSE /\ max_values_timestamps'[j] # None
                        /\ \/ /\ last'.ok
                              /\ max_values'[j] = v
                              /\ max_values_timestamps'[j] = t
                           \/ \E i \in DOMAIN max_values :
                                 /\ max_values[i] = max_values'[j]
                                 /\ max_values_timestamps[i] =
                                        max_values_timestamps'[j]]_vars

\* an accepted offer went in front of a filled slot, whose timestamp differs
C7_Witness ==
    /\ last.op = "offer" /\ last.ok
    /\ num_max_values >= 2
    /\ max_values[1] = last.value
    /\ max_values[2] > 0
    /\ max_values_timestamps[1] # max_values_timestamps[2]

---------------------------------------------------------------------------
(* Properties of the coordinator *)

\* C1: max_values is sorted in non-increasing order after every offer,
\* every step of a backfill and every month-end reset.
C1_Sortedness == IsSortedDesc(max_values)

\* a backfill has just put a value in front of one that was there
C1_Witness ==
    /\ num_max_values >= 2
    /\ io.op = "range" /\ io.offers = 1
    /\ max_values[1] > max_values[2]
    /\ max_values[2] > 0
    /\ max_values_timestamps[1] > max_values_timestamps[2]

\* C3: max_values and max_values_timestamps both have num_max_values
\* entries after every offer, backfill step and month-end reset.
C3_CapacityBound ==
    /\ Len(max_values) = num_max_values
    /\ Len(max_values_timestamps) = num_max_values

\* a full ledger after a month-end reset and a later backfill offer
C3_Witness ==
    /\ num_max_values = MaxCapacity
    /\ previous_month_max_values # <<>>
    /\ io.op = "range" /\ io.offers = 1
    /\ \A i \in DOMAIN max_values : max_values[i] > 0

\* C10: a reset callback invoked on day 1 of a month with monthly reset
\* enabled copies max_values to previous_month_max_values, sets max_values
\* to zeros and the timestamps to None (both of length num_max_values),
\* writes that state to the store once and notifies the entities once.
C10_MonthEndReset ==
    [][(io'.op = "reset" /\ monthly_reset /\ DayOfMonth(now') = 1)
       => /\ previous_month_max_values' = max_values
          /\ max_values' = [i \in 1..num_max_values |-> 0]
          /\ max_values_timestamps' = [i \in 1..num_max_values |-> None]
          /\ store' = [saved |-> TRUE,
                       max_values |-> max_values',
                       max_values_timestamps |-> max_values_timestamps',
                       previous_month_max_values |-> max_values]
          /\ io'.writes = 1
          /\ io'.notifies = 1]_vars

\* the reset has just moved a filled ledger to the previous month
C10_Witness ==
    /\ io.op = "reset" /\ io.writes = 1
    /\ monthly_reset /\ DayOfMonth(now) = 1
    /\ previous_month_max_values # <<>>
    /\ previous_month_max_values[1] > 0
    /\ \A i \in DOMAIN max_values : max_values[i] = 0

\* C11: a reset callback invoked with monthly reset disabled, or on a day
\* other than the 1st, leaves max_values, max_values_timestamps and
\* previous_month_max_values unchanged, writes nothing to the store and
\* notifies no entity.
C11_ResetNoOpOtherwise ==
    [][(io'.op = "reset" /\ ~(monthly_reset /\ DayOfMonth(now') = 1))
       => /\ max_values' = max_values
          /\ max_values_timestamps' = max_values_timestamps
          /\ previous_month_max_values' = previous_month_max_values
          /\ store' = store
          /\ io'.writes = 0
          /\ io'.notifies = 0]_vars

\* monthly reset is enabled, the callback ran on the 2nd and a filled ledger
\* is still there
C11_Witness ==
    /\ io.op = "reset" /\ io.writes = 0
    /\ monthly_reset /\ DayOfMonth(now) = 2
    /\ max_values[1] > 0
    /\ max_values_timestamps[1] # None

\* C12: a reset performed right after a performed reset, with no offer in
\* between, captures an all-zero snapshot and leaves max_values (all 0) and
\* max_values_timestamps (all None) as the first reset left them.
C12_ResetIdempotence ==
    [][(/\ io.op = "reset" /\ io.writes = 1
        /\ io'.op = "reset" /\ io'.writes = 1)
       => /\ previous_month_max_values' = [i \in 1..num_max_values |-> 0]
          /\ max_values' = max_values
          /\ max_values_timestamps' = max_values_timestamps
          /\ max_values' = [i \in 1..num_max_values |-> 0]
          /\ max_values_timestamps' = [i \in 1..num_max_values |-> None]]_vars

\* a value was offered and accepted, then the reset ran twice: the snapshot
\* is all zero although the ledger had been filled
C12_Witness ==
    /\ io.op = "reset" /\ io.writes = 1
    /\ offered # {}
    /\ previous_month_max_values = [i \in 1..num_max_values |-> 0]
    /\ \A i \in DOMAIN max_values : max_values[i] = 0

\* C13: when the statistics query of a periodic update yields no entry for
\* the source, no row, a None mean or a negative mean, the update offers
\* nothing, leaves max_values, max_values_timestamps and
\* previous_month_max_values unchanged, writes nothing to the store and
\* notifies no entity; and it runs to its end (the coroutine is idle again).
C13_NoSampleNoEffect ==
    [][\A stats \in StatsResults :
          (/\ \/ ~stats.present
              \/ stats.rows = <<>>
              \/ stats.rows[1].none
              \/ stats.rows[1].watts < 0
           /\ AsyncUpdatePeriodResumeWith(stats))
          => /\ io'.offers = 0
             /\ max_values' = max_values
             /\ max_values_timestamps' = max_values_timestamps
             /\ previous_month_max_values' = previous_month_max_values
             /\ store' = store
             /\ io'.writes = 0
             /\ io'.notifies = 0
             /\ pu'.pc = "idle"]_vars

\* a periodic update on a filled ledger has just ended without an offer
C13_Witness ==
    /\ source_set
    /\ io.op = "period" /\ io.offers = 0
    /\ pu.pc = "idle"
    /\ max_values[1] > 0
    /\ store.saved

\* C14: when a gate sensor is configured and its state, while a periodic
\* update runs, is missing, unavailable or anything other than "on", the
\* update offers nothing and leaves the ledger unchanged.
C14_GateSuppressesSample ==
    [][\A stats \in StatsResults :
          (/\ binary_sensor
           /\ gate # "on"
           /\ AsyncUpdatePeriodResumeWith(stats))
          => /\ io'.offers = 0
             /\ max_values' = max_values
             /\ max_values_timestamps' = max_values_timestamps]_vars

\* A statistics result that carries a sample: a first row with a mean >= 0.
HasSample(stats) ==
    /\ stats.present
    /\ stats.rows # <<>>
    /\ ~stats.rows[1].none
    /\ stats.rows[1].watts >= 0

SampleKw(stats) == stats.rows[1].watts \div 1000

SlotsOf(vals, v) == {i \in DOMAIN vals : vals[i] = v}

ExpectedAfter(shadow, stats, end) ==
    IF HasSample(stats)
    THEN UpdateMaxValuesWithTimestamp(single_peak_per_day, shadow.values,
             shadow.timestamps, num_max_values, SampleKw(stats), end)
    ELSE [ok |-> FALSE, values |-> shadow.values,
          timestamps |-> shadow.timestamps]

C17_UnresolvedSourceNoOp ==
    [][(/\ ~source_set
        /\ \/ AsyncUpdatePeriodStart
           \/ AsyncUpdatePeriodResume
           \/ AsyncUpdateMaxValuesFromMidnight
           \/ AsyncUpdateMaxValuesToCurrentMonth
           \/ UpdateMaxValuesFromRangeStep)
       => /\ pu'.pc # "query"
          /\ bf'.pc # "query"
          /\ max_values' = max_values
          /\ max_values_timestamps' = max_values_timestamps
          /\ previous_month_max_values' = previous_month_max_values
          /\ store' = store
          /\ io'.writes = 0]_vars

C19_CapacityRejected ==
    io.op = "construct" =>
        /\ ValidateNumMaxValues(num_max_values)
        /\ Len(max_values) = num_max_values

\* C20: calling the reset_max_values service runs the current-month resync
\* (async_update_max_values_to_current_month) on the registered coordinator,
\* whatever the state of its gate sensor, and completes without error.
C20_ResetServiceRunsResync ==
    [][ResetMaxValuesService =>
           /\ io'.op /= "AttributeError"
           /\ AsyncUpdateMaxValuesToCurrentMonth]_vars

\* The four offers of scenario B taken one after the other, each from the
\* ledger the one before it left: 5 on day 0 into the fresh ledger is
\* accepted, 3 on day 0 is rejected, 7 on day 0 is accepted and replaces the
\* slot of day 0, 4 on day 1 is accepted; the final values are <<7, 4>> and
\* the dates of the two slots are first_date, second_date.
ScenarioBSteps(first_date, second_date) ==
    \A t \in OfferInstants :
        LET day0 == DateOf(t) = 0
            day1 == DateOf(t) = 1
            fresh == /\ max_values = <<0, 0>>
                     /\ max_values_timestamps = <<None, None>>
            holds(v) == /\ max_values = <<v, 0>>
                        /\ max_values_timestamps[1] # None
                        /\ DateOf(max_values_timestamps[1]) = 0
                        /\ max_values_timestamps[2] = None
            becomes(v) == /\ last'.ok
                          /\ max_values' = <<v, 0>>
                          /\ max_values_timestamps' = <<t, None>>
        IN  (num_max_values = 2 /\ single_peak_per_day)
            => /\ (fresh /\ day0 /\ OfferCall(5, t)) => becomes(5)
               /\ (holds(5) /\ day0 /\ OfferCall(3, t))
                  => /\ ~last'.ok
                     /\ UNCHANGED ledger
               /\ (holds(5) /\ day0 /\ OfferCall(7, t)) => becomes(7)
               /\ (holds(7) /\ day1 /\ OfferCall(4, t))
                  => /\ last'.ok
                     /\ max_values' = <<7, 4>>
                     /\ DateOf(max_values_timestamps'[1]) = first_date
                     /\ DateOf(max_values_timestamps'[2]) = second_date

\* C21 (amended): scenario B (capacity 2, ONE_PER_DAY, fresh ledger):
\* offer(5, day1), offer(3, day1), offer(7, day1), offer(4, day2) are
\* accepted, rejected, accepted, accepted, the final values are <<7, 4>> and
\* the dates of the slots in slot order are day1 (the slot of 7) then day2
\* (the slot of 4).  Day 0 of the model calendar is day1, day 1 is day2.
C21_ScenarioB == [][ScenarioBSteps(0, 1)]_vars

\* the scenario has run to its end
C21_Witness ==
    /\ num_max_values = 2 /\ single_peak_per_day
    /\ {3, 5, 7, 4} \subseteq offered
    /\ last.op = "offer" /\ last.value = 4 /\ last.ok
    /\ max_values = <<7, 4>>
    /\ DateOf(max_values_timestamps[1]) = 0
    /\ DateOf(max_values_timestamps[2]) = 1

\* C21: scenario B as stated, the dates of the slots in slot order being
\* day2 then day1.
C21_ScenarioBDay2First == [][ScenarioBSteps(1, 0)]_vars

\* C22: the config flow preserves the one-peak-per-day choice: on every path
\* that ends in an entry, the entry data contain single_peak_per_day with the
\* value supplied in the input, and the coordinator built from the entry
\* runs in that ledger mode.
C22_FlowKeepsSinglePeakPerDay ==
    [][\A data \in FlowInputs :
          (/\ ValidateNumMaxValues(data.num_max_values)
           /\ \/ AsyncStepTimeConfigWith(data)
              \/ AsyncStepImportWith(data)
              \/ AsyncStepReconfigureTimeWith(data))
          => /\ "single_peak_per_day" \in DOMAIN NormalizeConfigData(data)
             /\ single_peak_per_day' = data.single_peak_per_day]_vars

\* C23: capacity invariant across restore: after async_setup has restored a
\* persisted record, also one written under a different capacity, and after
\* every later offer, len(max_values) = len(max_values_timestamps) =
\* num_max_values.
C23_CapacityAcrossRestore ==
    /\ Len(max_values) = num_max_values
    /\ Len(max_values_timestamps) = num_max_values

\* C24: every committed mutation is persisted and announced: an operation
\* that changes max_values, max_values_timestamps or
\* previous_month_max_values writes the resulting state to the store and
\* notifies the dependents in the step that changes them or, for a backfill,
\* before it completes; hence whenever no operation is in flight and a
\* record has been written, the last record written equals the state in
\* memory.
C24_MutationsPersisted ==
    (pu.pc = "idle" /\ bf.pc = "idle" /\ store.saved)
    => store = SaveRecord(max_values, max_values_timestamps,
                          previous_month_max_values)

\* C25 (amended): null or negative samples in a backfill without reset: a
\* sub-window whose statistics mean is None or negative (or whose result has
\* no row) calls offer zero times and leaves the ledger unchanged; no write
\* happens for it unless it is the last sub-window, after which the backfill
\* writes the ledger as it stands to the store.  So a backfill in which every
\* sub-window is such calls offer zero times and leaves the ledger unchanged,
\* and it performs one write, of the unchanged ledger.
C25_NullSamplesInBackfill ==
    [][\A stats \in StatsResults :
          (/\ ~bf.reset_max
           /\ ~HasSample(stats)
           /\ UpdateMaxValuesFromRangeStepWith(stats))
          => /\ io'.offers = 0
             /\ UNCHANGED <<ledger, previous_month_max_values>>
             /\ IF bf.cycle + 1 < bf.cycles
                THEN store' = store /\ io'.writes = 0
                ELSE /\ io'.writes = 1
                     /\ store' = SaveRecord(max_values,
                                            max_values_timestamps,
                                            previous_month_max_values)]_vars

\* a backfill from midnight over one sub-window has ended on a result
\* without a usable mean: the ledger still holds the value offered before
\* the pass and the store has been written
C25_Witness ==
    /\ bf.pc = "idle"
    /\ io = [op |-> "range", offers |-> 0, writes |-> 1, notifies |-> 1]
    /\ cycle_type = CYCLE_HOURLY
    /\ HourOf(now) = 1
    /\ max_values[1] > 0
    /\ store = SaveRecord(max_values, max_values_timestamps,
                          previous_month_max_values)

\* C25: a backfill without reset in which every sub-window's statistics mean
\* is None or negative calls offer zero times, leaves the ledger unchanged
\* and performs no write to the store (read on the backfills of one
\* sub-window, where the one step is the whole pass).
C25_NullSamplesNoWrite ==
    [][\A stats \in StatsResults :
          (/\ ~bf.reset_max
           /\ bf.cycles = 1
           /\ ~HasSample(stats)
           /\ UpdateMaxValuesFromRangeStepWith(stats))
          => /\ io'.offers = 0
             /\ UNCHANGED ledger
             /\ io'.writes = 0
             /\ store' = store]_vars

\* C26: a backfill persists once: over a range of at least one whole cycle
\* it performs exactly one store write and one notification, both in the step
\* of its last sub-window; the call itself and the sub-windows before the
\* last write nothing, however many offers were accepted.
C26_BackfillPersistsOnce ==
    [][/\ (bf.pc = "idle"
           /\ (AsyncUpdateMaxValuesFromMidnight
               \/ AsyncUpdateMaxValuesToCurrentMonth))
          => /\ io'.writes = 0 /\ io'.notifies = 0
             /\ store' = store
       /\ \A stats \in StatsResults :
              UpdateMaxValuesFromRangeStepWith(stats)
              => IF bf.cycle + 1 < bf.cycles
                 THEN /\ io'.writes = 0 /\ io'.notifies = 0
                      /\ store' = store
                      /\ bf'.pc = "query"
                 ELSE /\ io'.writes = 1 /\ io'.notifies = 1
                      /\ store' = SaveRecord(max_values',
                                             max_values_timestamps',
                                             previous_month_max_values')
                      /\ bf'.pc = "idle"]_vars

\* a resync over two sub-windows has ended: its first sub-window was
\* accepted without a write, its last one wrote the ledger
C26_Witness ==
    /\ bf.pc = "idle" /\ pu.pc = "idle"
    /\ io.op = "range" /\ io.writes = 1 /\ io.notifies = 1
    /\ DateOf(now) = 1
    /\ max_values[1] > 0
    /\ max_values_timestamps[1] = SECONDS_PER_HOUR
    /\ store = SaveRecord(max_values, max_values_timestamps,
                          previous_month_max_values)

\* The call of a backfill over [range_start, range_end): no query when the
\* range is shorter than a cycle; otherwise the loop is entered at window 0
\* with the number of whole cycles of the range.
PartitionStart(range_start, range_end) ==
    LET D == IF cycle_type = "quarterly" THEN 15 * 60 ELSE 60 * 60
        length == range_end - range_start
    IN  /\ length < D => bf'.pc = "idle"
        /\ length >= D
           => /\ bf'.pc = "query"
              /\ bf'.start = range_start
              /\ bf'.cycle = 0
              /\ bf'.cycles * D <= length
              /\ (bf'.cycles + 1) * D > length

\* C27: backfill partition: over [range_start, range_end) with cycle duration
\* D a backfill queries floor((range_end - range_start) / D) windows; window
\* k is [range_start + k * D, range_start + (k + 1) * D), the windows follow
\* one another without gap or overlap, none extends past range_end, a
\* trailing partial cycle is not queried and a range shorter than D issues
\* no query.
C27_BackfillPartition ==
    [][/\ (bf.pc = "idle" /\ source_set /\ AsyncUpdateMaxValuesFromMidnight)
          => PartitionStart(Midnight(now), ReplaceMinute(now, 0))
       /\ (bf.pc = "idle" /\ AsyncUpdateMaxValuesToCurrentMonth)
          => PartitionStart(MonthStart(now), now)
       /\ \A stats \in StatsResults :
              UpdateMaxValuesFromRangeStepWith(stats)
              => LET D == IF cycle_type = "quarterly" THEN 15 * 60
                          ELSE 60 * 60
                 IN  /\ bf.cycle < bf.cycles
                     /\ CycleStart(bf, cycle_type) = bf.start + bf.cycle * D
                     /\ CycleEnd(bf, cycle_type)
                            = CycleStart(bf, cycle_type) + D
                     /\ CycleEnd(bf, cycle_type) <= bf.start + bf.cycles * D
                     /\ IF bf.cycle + 1 < bf.cycles
                        THEN /\ bf'.pc = "query"
                             /\ bf'.start = bf.start
                             /\ bf'.cycles = bf.cycles
                             /\ CycleStart(bf', cycle_type)
                                    = CycleEnd(bf, cycle_type)
                        ELSE bf'.pc = "idle"]_vars

\* a resync called at 00:01 of the 2nd is at its second and last window:
\* the range is two whole hours and a minute
C27_Witness ==
    /\ bf.pc = "query" /\ bf.reset_max
    /\ bf.cycle = 1 /\ bf.cycles = 2
    /\ bf.start = MonthStart(now)
    /\ now - bf.start = 2 * SECONDS_PER_HOUR + 60

\* C28: exactly-once cycle coverage: the periodic callback fires at minute 1
\* of every hour (hourly) or at minutes 1, 16, 31 and 46 (quarterly); with
\* the source registered each firing queries the whole cycle that ended one
\* minute earlier, and the cycle of a firing starts where the cycle of the
\* firing before it ended, so that no completed cycle is skipped and none is
\* queried twice.
C28_ExactlyOnceCoverage ==
    [][(source_set /\ ScheduledFiring)
       => LET D == IF cycle_type = "quarterly" THEN 15 * 60 ELSE 60 * 60
              fired == now'
          IN  /\ MinuteOf(fired) \in (IF cycle_type = "quarterly"
                                      THEN {1, 16, 31, 46} ELSE {1})
              /\ SecondOf(fired) = 0
              /\ pu'.pc = "query"
              /\ pu'.start % D = 0
              /\ pu'.start + D + 60 = fired
              /\ (pu.pc = "idle" /\ now > 0)
                 => /\ fired - now = D
                    /\ pu'.start = now - 60]_vars

\* the firing of 01:01 in quarterly mode, after the one of 00:46: it queries
\* the cycle from 00:45 to 01:00
C28_Witness ==
    /\ cycle_type = CYCLE_QUARTERLY
    /\ source_set
    /\ pu.pc = "query"
    /\ now = SECONDS_PER_HOUR + 60
    /\ pu.start = SECONDS_PER_HOUR - SECONDS_PER_QUARTER_HOUR

\* C29: in quarterly mode the statistics period is "5minute" and one
\* periodic update issues exactly three statistics queries, one for each
\* consecutive 5-minute sub-window of the completed 15-minute cycle, the
\* first being [start, start + 5 min), and takes the average of the three
\* means as the cycle's sample.
C29_QuarterlyQueries ==
    (probe.fn = "query" /\ cycle_type = "quarterly")
    => LET start == probe.a[1].start
       IN  /\ Len(probe.a) = 3
           /\ \A k \in 1..3 :
                  /\ probe.a[k].period = "5minute"
                  /\ probe.a[k].start = start + (k - 1) * 5 * 60
                  /\ probe.a[k].end = start + k * 5 * 60
           /\ (Len(probe.rows) = 3
               /\ \A k \in 1..3 : ~probe.rows[k].none)
              => 3 * probe.b.watts
                     = probe.rows[1].watts + probe.rows[2].watts
                           + probe.rows[3].watts

\* C30: corrupt persisted timestamps are recovered per slot: when a
\* persisted record contains a malformed timestamp string in some slot
\* (a string that is no datetime, the empty string included), restore does
\* not fail; that slot's timestamp becomes None while every other slot's
\* timestamp, all values and the previous-month snapshot are restored as
\* stored.
C30_CorruptRecoveredPerSlot ==
    [][(store.saved /\ AsyncSetup)
       => /\ io'.op = "setup"
          /\ max_values' = store.max_values
          /\ previous_month_max_values' = store.previous_month_max_values
          /\ Len(max_values_timestamps') = Len(store.max_values_timestamps)
          /\ \A i \in DOMAIN store.max_values_timestamps :
                 max_values_timestamps'[i] =
                     IF store.max_values_timestamps[i]
                            \in {GarbageString, EmptyString}
                     THEN None
                     ELSE store.max_values_timestamps[i]]_vars

\* C31: unload cancels the schedule: async_unload calls the cancel handle
\* of every registered listener exactly once and empties the listener list;
\* after unload neither the periodic update callback nor the month-end
\* reset callback is invoked again for that coordinator.
C31_UnloadCancelsSchedule ==
    [][/\ AsyncUnload
          => /\ listeners' = <<>>
             /\ \A h \in Handles :
                    scheduler'[h].cancels = scheduler[h].cancels
                        + (IF h \in Range(listeners) THEN 1 ELSE 0)
             /\ \A h \in Handles : scheduler'[h].cancels <= 1
       /\ Unloaded => ~(AsyncUpdatePeriodStart \/ AsyncResetMonthly)]_vars

\* unloaded with both listeners registered, after the periodic callback had
\* fired, at an instant after which the schedule has further firings
C31_Witness ==
    /\ io.op = "unload"
    /\ listeners = <<>>
    /\ \A h \in Handles : scheduler[h] = [active |-> FALSE, cancels |-> 1]
    /\ now > 0
    /\ \E t \in PeriodInstants(cycle_type) : t > now
    /\ \E t \in ResetInstants : t > now

\* C32: in-flight results are discarded on unload: if the integration is
\* unloaded while a periodic update or a backfill is suspended on its
\* statistics query, then when the query returns after the unload its
\* result is discarded: the persistent store receives no write and no
\* dependent is notified after the unload.
C32_InFlightDiscardedOnUnload ==
    [][Unloaded => (store' = store /\ io'.writes = 0 /\ io'.notifies = 0)]_vars

\* C33: no interleaved mutation: between the suspension of an accounting
\* operation (awaiting the statistics query) and its resumption, no other
\* accounting operation (periodic update, backfill from midnight, manual
\* resync, month-end reset) mutates max_values, the timestamps or the
\* previous-month snapshot: a step that leaves a suspended operation
\* suspended where it is leaves the three lists as they are.
C33_NoInterleavedMutation ==
    [][/\ (pu.pc = "query" /\ pu' = pu)
          => UNCHANGED <<ledger, previous_month_max_values>>
       /\ (bf.pc = "query" /\ bf' = bf)
          => UNCHANGED <<ledger, previous_month_max_values>>]_vars

\* C34: serializability of accounting operations: for every interleaving,
\* at their suspension points, of a backfill, a periodic update and a
\* month-end reset on the same coordinator, the final max_values, timestamps
\* and previous_month_max_values equal those produced by some serial
\* execution of the same operations.
C34_Serializability ==
    (bf.pc = "idle" /\ pu.pc = "idle" /\ now = ResetFiresAt)
    => Lists(max_values, max_values_timestamps, previous_month_max_values)
           \in SerialOutcomes

\* The highest value offered on each date, one entry per date (0 for a date
\* without a positive offer)
PerDateMaxima == [i \in 1..Cardinality(DailyDates) |-> probe.a[i - 1]]

\* C35: ONE_PER_DAY top-N: after any sequence of offers of non-negative
\* values to a freshly constructed ledger of capacity N in ONE_PER_DAY mode,
\* max_values equals the N largest of the per-calendar-date maxima of the
\* offered strictly positive values (one entry per date), in descending
\* order, padded with 0 to length N, whatever the order of the offers.
C35_OnePerDayTopN ==
    single_peak_per_day
    => max_values = Slice(SortedDesc(PerDateMaxima
                                       \o Repeat(0, num_max_values)),
                          num_max_values)

\* every date has had a positive offer, more dates than slots; the last
\* offer raised the peak of a date that already held a slot
C35_Witness ==
    /\ single_peak_per_day
    /\ num_max_values = 2
    /\ \A d \in DailyDates : probe.a[d] > 0
    /\ Cardinality(DailyDates) > num_max_values
    /\ last.op = "offer" /\ last.same_date /\ last.ok
    /\ max_values[2] > 0

\* C36: day attribution: in ONE_PER_DAY mode a sample is bucketed under the
\* calendar date on which the cycle it measures started, for both periodic
\* updates and backfill: the slot an accepted sample takes carries the date
\* of the start of its cycle, so that the sample of the last cycle of a day
\* (ending at midnight) competes with that day's peak and not with the next
\* day's.
C36_DayAttribution ==
    [][single_peak_per_day
       => /\ (pu.pc = "query" /\ pu'.pc = "idle" /\ last'.op = "offer"
                 /\ io'.op = "period" /\ last'.ok)
             => \E i \in DOMAIN max_values' :
                    /\ max_values'[i] = last'.value
                    /\ max_values_timestamps'[i] # None
                    /\ DateOf(max_values_timestamps'[i]) = DateOf(pu.start)
          /\ (bf.pc = "query" /\ io'.op = "range" /\ io'.offers = 1
                 /\ last'.ok)
             => \E i \in DOMAIN max_values' :
                    /\ max_values'[i] = last'.value
                    /\ max_values_timestamps'[i] # None
                    /\ DateOf(max_values_timestamps'[i])
                           = DateOf(CycleStart(bf, cycle_type))]_vars

\* every slot is unfilled (0, None) or filled (positive value, timestamp)
WellFormedSlots ==
    \A i \in DOMAIN max_values :
        \/ max_values[i] = 0 /\ max_values_timestamps[i] = None
        \/ max_values[i] > 0 /\ max_values_timestamps[i] # None

\* C37: slot well-formedness: starting from a fresh ledger, after any
\* sequence of periodic updates, backfills and resets in either mode, every
\* slot is either unfilled (value 0 and timestamp None) or filled (value
\* strictly greater than 0 and timestamp not None); no stored value is
\* negative, and a cycle whose mean is exactly 0 never occupies a slot: its
\* offer leaves the ledger as it is.
C37_SlotWellFormedness ==
    /\ []WellFormedSlots
    /\ [][(io'.offers = 1 /\ last'.value = 0)
          => (~last'.ok /\ UNCHANGED ledger)]_vars

\* after a reset and an accepted sample, a cycle of mean 0 was offered to a
\* ledger with a free slot and rejected
C37_Witness ==
    /\ io.op = "period" /\ io.offers = 1
    /\ last.op = "offer" /\ last.value = 0 /\ ~last.ok
    /\ num_max_values = 2
    /\ max_values[1] > 0 /\ max_values[2] = 0
    /\ previous_month_max_values # <<>>

\* C38: peaks never decrease between resets: in either mode, for every
\* index i, max_values[i] after an offer is greater than or equal to
\* max_values[i] before it; only a month-end reset or a resync with reset
\* can lower any entry, and a rejected offer changes nothing.
C38_PeaksNeverDecrease ==
    [][/\ io'.offers = 1
          => /\ \A i \in DOMAIN max_values : max_values'[i] >= max_values[i]
             /\ ~last'.ok => UNCHANGED ledger
       /\ (\E i \in DOMAIN max_values : max_values'[i] < max_values[i])
          => (AsyncResetMonthly \/ AsyncUpdateMaxValuesToCurrentMonth)]_vars

\* ONE_PER_DAY, both slots filled: the last sample raised the peak of a date
\* that already held a slot
C38_Witness ==
    /\ io.offers = 1
    /\ last.op = "offer" /\ last.ok /\ last.same_date
    /\ single_peak_per_day
    /\ num_max_values = 2
    /\ max_values[2] > 0

\* C39: the month-end reset is not missed across downtime: with monthly
\* reset enabled, whenever the coordinator is running in calendar month M
\* after the check time on the 1st of M, the ledger holds no peak whose
\* timestamp lies in a month before M, also when the host was not running
\* at the check time on the 1st of M and was restarted later with a
\* persisted ledger.
C39_ResetNotMissedAcrossDowntime ==
    (HostRunning /\ monthly_reset /\ now >= MonthStart(now) + 2 * 60)
    => \A i \in DOMAIN max_values_timestamps :
           max_values_timestamps[i] # None
           => max_values_timestamps[i] >= MonthStart(now)

\* C40: energy accumulation covers only the time since the previous event:
\* every processed source or gate state-change event advances _last_time to
\* the event time, so that the energy added by an event covers exactly the
\* interval since the immediately preceding event (the previous state change
\* or hour start, at `now`); in particular an interval during which the gate
\* was not allowed or the source was unavailable adds no energy.
C40_EnergySincePreviousEvent ==
    [][io'.op = "state_changed"
       => LET added == hourly'.accumulated_energy - hourly.accumulated_energy
          IN  /\ hourly'.last_time = now'
              /\ added \in {0, (hourly.last_power + hourly'.last_power)
                                  * (now' - now)}
              /\ (~CanUpdate(binary_sensor, gate) \/ ~source_state.known)
                 => added = 0]_vars

---------------------------------------------------------------------------
(* Properties of the pure functions *)

\* C8: the averages are the mean of the entries strictly greater than 0,
\* and 0 when there is none.
C8_AverageExcludesUnfilled ==
    probe.fn \in {"average_max_value", "previous_month_average_max_value"}
    => LET values == IF probe.fn = "average_max_value" THEN max_values
                     ELSE previous_month_max_values
           filled == {i \in DOMAIN values : values[i] > 0}
           total == Sum([i \in DOMAIN values |->
                            IF values[i] > 0 THEN values[i] ELSE 0])
       IN  IF filled = {} THEN probe.a = 0
           ELSE probe.a * Cardinality(filled) = total * probe.b

\* C9: the window of the periodic update ends at `now` truncated down to a
\* multiple of the cycle duration D and starts D earlier, so that
\* end <= now < end + D.
C9_CycleBoundary ==
    probe.fn = "cycle"
    => LET D == IF cycle_type = "quarterly" THEN 15 * 60 ELSE 60 * 60
       IN  /\ probe.b = (now \div D) * D
           /\ probe.a = probe.b - D
           /\ probe.b <= now /\ now < probe.b + D

\* quarterly, 7 minutes into the first hour of a day: the window is the
\* last quarter of the previous day
C9_Witness ==
    /\ probe.fn = "cycle"
    /\ cycle_type = "quarterly"
    /\ DateOf(now) = 1 /\ HourOf(now) = 0 /\ MinuteOf(now) = 7
    /\ DateOf(probe.a) = 0
    /\ probe.b = now - 7 * 60 - SecondOf(now)

=============================================================================
